---- MODULE Spec2Model ----
(***************************************************************************)
(* BedPak: the package catalog (SQLite tables packages, tags, users,       *)
(* download_history), the content store (storage/addons, storage/icons)    *)
(* and the request handlers POST /packages, PUT /packages/:id,             *)
(* DELETE /packages/:id and GET /packages/:name/download.                  *)
(*                                                                         *)
(* A handler is a process; it yields at every await that touches the       *)
(* catalog or the file system, so one action is one such access followed   *)
(* by the handler's local computation up to the next one.                  *)
(***************************************************************************)
EXTENDS Integers, Sequences, FiniteSets, Bags, TLC

---------------------------------------------------------------------------
(* Bounds of the model *)

\* Number of request handlers that may be in flight at once.
NumProcs == 2
\* Largest id the packages AUTOINCREMENT sequence hands out.
MaxId == 2
\* The clock (Date.now()) runs over 0..MaxTime.
MaxTime == 1
\* Clock ticks per calendar day (toISOString().split('T')[0]).
TicksPerDay == 1
\* Largest number of downloads recorded.
MaxDownloads == 3
\* Largest number of create, update and delete requests in one behaviour.
MaxCalls == 3
\* Largest number of days asked of getDailyDownloads.
MaxDays == 3
\* Largest id of table tags.
MaxTagId == 2

Procs == 1..NumProcs
Ids == 1..MaxId
Times == 0..MaxTime

---------------------------------------------------------------------------
(* Values *)

\* JS null and SQL NULL; a nullable value that is set is Some(v).
Null == <<>>
Some(v) == <<v>>
\* The empty string (a string is the sequence of its characters).
EmptyString == <<>>

\* x || null of DB.createPackage and DB.updatePackage, for a text and for a
\* number: null, the empty string and 0 are falsy.
OrNull(x) == IF x = Null \/ x = Some(EmptyString) THEN Null ELSE x
OrNullNumber(x) == IF x = Null \/ x = Some(0) THEN Null ELSE x

Max(S) == CHOOSE x \in S : \A y \in S : y <= x

---------------------------------------------------------------------------
(* Constants of the program *)

MAX_FILE_SIZE == 209715200
MAX_ICON_SIZE == 2097152

Letters == {"a", "b", "c", "d", "e", "f", "g", "h", "i", "j", "k", "l", "m",
            "n", "o", "p", "q", "r", "s", "t", "u", "v", "w", "x", "y", "z",
            "A", "B", "C", "D", "E", "F", "G", "H", "I", "J", "K", "L", "M",
            "N", "O", "P", "Q", "R", "S", "T", "U", "V", "W", "X", "Y", "Z"}
Digits == {"0", "1", "2", "3", "4", "5", "6", "7", "8", "9"}

\* PACKAGE_NAME_REGEX = /^[a-zA-Z0-9_-]{1,64}$/
PACKAGE_NAME_REGEX(name) ==
    /\ Len(name) >= 1
    /\ Len(name) <= 64
    /\ \A i \in 1..Len(name) : name[i] \in Letters \cup Digits \cup {"_", "-"}

\* The length of the longest prefix of s made of digits.
RECURSIVE DigitRun(_)
DigitRun(s) ==
    IF s # <<>> /\ Head(s) \in Digits THEN 1 + DigitRun(Tail(s)) ELSE 0

Drop(s, n) == SubSeq(s, n + 1, Len(s))

\* VERSION_REGEX = /^\d+\.\d+\.\d+$/
VERSION_REGEX(v) ==
    LET a == DigitRun(v)
        r1 == Drop(v, a)
        b == IF r1 # <<>> /\ Head(r1) = "." THEN DigitRun(Tail(r1)) ELSE 0
        r2 == IF r1 # <<>> THEN Drop(Tail(r1), b) ELSE <<>>
        c == IF r2 # <<>> /\ Head(r2) = "." THEN DigitRun(Tail(r2)) ELSE 0
    IN  /\ a >= 1
        /\ r1 # <<>> /\ Head(r1) = "." /\ b >= 1
        /\ r2 # <<>> /\ Head(r2) = "." /\ c >= 1
        /\ Len(r2) = 1 + c

validatePackageName(name) ==
    IF Len(name) < 1 THEN FALSE
    ELSE IF Len(name) > 64 THEN FALSE
    ELSE PACKAGE_NAME_REGEX(name)

validateVersion(version) ==
    IF version = EmptyString THEN TRUE ELSE VERSION_REGEX(version)

\* A link URL is the tuple of its parts: the scheme, the host with the fixed
\* start of the path, and what follows.
Url(scheme, host, rest) == <<scheme, host, rest>>
UrlWord(s) == Len(s) >= 1 /\ \A i \in 1..Len(s) : s[i] \in Letters \cup Digits \cup {"_"}
UrlWordDash(s) ==
    Len(s) >= 1 /\ s[1] \in Letters \cup Digits \cup {"_", "-"}

\* /^https?:\/\/(www\.)?ko-fi\.com\/[a-zA-Z0-9_]+\/?$/
kofiUrlPattern(u) ==
    /\ u[1] \in {"http", "https"}
    /\ u[2] = "ko-fi.com/"
    /\ \/ UrlWord(u[3])
       \/ Len(u[3]) >= 2 /\ u[3][Len(u[3])] = "/"
            /\ UrlWord(SubSeq(u[3], 1, Len(u[3]) - 1))

\* /^https?:\/\/(www\.)?(youtube\.com\/watch\?v=|youtu\.be\/)[a-zA-Z0-9_-]+/
youtubeUrlPattern(u) ==
    /\ u[1] \in {"http", "https"}
    /\ u[2] \in {"youtube.com/watch?v=", "youtu.be/"}
    /\ UrlWordDash(u[3])

\* /^https?:\/\/(www\.)?(discord\.(gg|com)\/|discordapp\.com\/invite\/)[a-zA-Z0-9_-]+/
discordUrlPattern(u) ==
    /\ u[1] \in {"http", "https"}
    /\ u[2] \in {"discord.gg/", "discord.com/", "discordapp.com/invite/"}
    /\ UrlWordDash(u[3])

---------------------------------------------------------------------------
(* Content store: storage.ts *)

\* A buffer is its length and its leading bytes.
Buffer(size, head) == [size |-> size, head |-> head]

\* sanitizeForFilesystem: / \ : * ? " < > | become _, then every ".."
\* becomes _, then a leading run of dots becomes _, then 64 characters.
RECURSIVE ReplaceDotDot(_)
ReplaceDotDot(s) ==
    IF Len(s) < 2 THEN s
    ELSE IF s[1] = "." /\ s[2] = "." THEN <<"_">> \o ReplaceDotDot(Drop(s, 2))
    ELSE <<s[1]>> \o ReplaceDotDot(Tail(s))

RECURSIVE DotRun(_)
DotRun(s) == IF s # <<>> /\ Head(s) = "." THEN 1 + DotRun(Tail(s)) ELSE 0

sanitizeForFilesystem(name) ==
    LET a == [i \in 1..Len(name) |->
                 IF name[i] \in {"/", "\\", ":", "*", "?", "\"", "<", ">", "|"}
                 THEN "_" ELSE name[i]]
        b == ReplaceDotDot(a)
        c == IF DotRun(b) > 0 THEN <<"_">> \o Drop(b, DotRun(b)) ELSE b
    IN  SubSeq(c, 1, IF Len(c) < 64 THEN Len(c) ELSE 64)

\* calculateBufferHash: SHA-256 of the buffer, taken as collision free.
calculateBufferHash(buffer) == <<"sha256", buffer>>

\* A validateMcaddonFile that compares the first three bytes only.
validateMcaddonFile_threeBytes(fileBuffer) ==
    IF fileBuffer.size < 4 THEN FALSE
    ELSE /\ fileBuffer.head[1] = 80
         /\ fileBuffer.head[2] = 75
         /\ fileBuffer.head[3] = 3

validateMcaddonFile(fileBuffer) ==
    IF fileBuffer.size < 4 THEN FALSE
    ELSE /\ fileBuffer.head[1] = 80
         /\ fileBuffer.head[2] = 75
         /\ fileBuffer.head[3] = 3
         /\ fileBuffer.head[4] = 4

\* The package directory {id}-{sanitizedName} under storage/addons.
getAddonPath(packageId, packageName) ==
    [id |-> packageId, dir |-> sanitizeForFilesystem(packageName)]

\* The path of addon-{timestamp}.mcaddon in a package directory.
AddonFilePath(packageDir, timestamp) ==
    <<"addons", packageDir.id, packageDir.dir, timestamp>>

InDir(path, packageDir) == path[2] = packageDir.id /\ path[3] = packageDir.dir

\* writeFile: creates the file or replaces its content.
WriteFile(files, path, data) ==
    {f \in files : f.path # path} \cup {[path |-> path, data |-> data]}

\* What a failed write leaves at the path: a file cut short.
Truncated == Buffer(0, <<>>)

\* The ways a save can fail: mkdir fails, the file cannot be created, the
\* write fails part way (disk full).
FsFaults == {"none", "mkdir", "open", "write"}

\* saveAddon(packageId, packageName, fileBuffer) on the directories dirs and
\* files files, at clock t.  threw: the call raised.
saveAddon(dirs, files, packageId, packageName, fileBuffer, t, fault) ==
    LET packageDir == getAddonPath(packageId, packageName)
        filePath == AddonFilePath(packageDir, t)
        fileHash == calculateBufferHash(fileBuffer)
        failed(d, f) == [threw |-> TRUE, dirs |-> d, files |-> f,
                         filePath |-> EmptyString, fileHash |-> EmptyString]
    IN  IF ~validateMcaddonFile(fileBuffer) THEN failed(dirs, files)
        ELSE IF fault = "mkdir" /\ packageDir \notin dirs THEN failed(dirs, files)
        ELSE IF fault \in {"mkdir", "open"}
             THEN failed(dirs \cup {packageDir}, files)
        ELSE IF fault = "write"
             THEN failed(dirs \cup {packageDir}, WriteFile(files, filePath, Truncated))
        ELSE [threw |-> FALSE,
              dirs |-> dirs \cup {packageDir},
              files |-> WriteFile(files, filePath, fileBuffer),
              filePath |-> filePath,
              fileHash |-> fileHash]

\* A deleteAddon that removes one file of the package directory for each
\* call, and the directory once it is empty.
deleteAddon_oneFile(dirs, files, packageId, packageName) ==
    LET packageDir == getAddonPath(packageId, packageName)
        inDir == {f \in files : InDir(f.path, packageDir)}
    IN  IF packageDir \in dirs /\ inDir # {}
        THEN [dirs |-> dirs, files |-> files \ {CHOOSE f \in inDir : TRUE}]
        ELSE [dirs |-> dirs \ {packageDir}, files |-> files]

\* deleteAddon: every file of the package directory, then the directory.
deleteAddon(dirs, files, packageId, packageName) ==
    LET packageDir == getAddonPath(packageId, packageName)
    IN  IF packageDir \in dirs
        THEN [dirs |-> dirs \ {packageDir},
              files |-> {f \in files : ~InDir(f.path, packageDir)}]
        ELSE [dirs |-> dirs, files |-> files]

\* The file of the package directory that sorts first, or null.
getLatestAddonFile_first(dirs, files, packageId, packageName) ==
    LET packageDir == getAddonPath(packageId, packageName)
        addonFiles == {f.path : f \in {g \in files : InDir(g.path, packageDir)}}
    IN  IF packageDir \notin dirs THEN Null
        ELSE IF addonFiles = {} THEN Null
        ELSE Some(CHOOSE q \in addonFiles : \A r \in addonFiles : q[4] <= r[4])

\* getLatestAddonFile: the greatest file name of the package directory, or
\* null.  Every file of a package directory is an addon-{timestamp}.mcaddon
\* with a 13 digit timestamp, so the order of the names is that of the
\* timestamps.
getLatestAddonFile(dirs, files, packageId, packageName) ==
    LET packageDir == getAddonPath(packageId, packageName)
        addonFiles == {f.path : f \in {g \in files : InDir(g.path, packageDir)}}
    IN  IF packageDir \notin dirs THEN Null
        ELSE IF addonFiles = {} THEN Null
        ELSE Some(CHOOSE q \in addonFiles : \A r \in addonFiles : r[4] <= q[4])

\* getAddonStream: null when the path does not exist.
getAddonStream(files, filePath) ==
    IF \E f \in files : f.path = filePath
    THEN Some((CHOOSE f \in files : f.path = filePath).data)
    ELSE Null

IconExtensions == <<"png", "jpg", "webp", "gif", "svg">>

\* Whether the bytes pat occur in the bytes s.
Includes(s, pat) ==
    \E i \in 1..(Len(s) - Len(pat) + 1) : SubSeq(s, i, i + Len(pat) - 1) = pat
StartsWith(s, pat) == Len(s) >= Len(pat) /\ SubSeq(s, 1, Len(pat)) = pat

\* trim() of the text: leading white space dropped (the one-byte white space:
\* tab, LF, VT, FF, CR, space).
RECURSIVE TrimStart(_)
TrimStart(s) ==
    IF s # <<>> /\ Head(s) \in {9, 10, 11, 12, 13, 32} THEN TrimStart(Tail(s)) ELSE s

\* A validateIconType that sniffs the text for SVG before it looks at the
\* magic bytes.
validateIconType_svgFirst(buffer) ==
    LET b == buffer.head
        invalid == [valid |-> FALSE, mimeType |-> Null, extension |-> Null]
        content == TrimStart(SubSeq(b, 1, IF Len(b) < 1024 THEN Len(b) ELSE 1024))
    IN  IF buffer.size < 4 THEN invalid
        ELSE IF \/ StartsWith(content, <<60, 63, 120, 109, 108>>)
                \/ StartsWith(content, <<60, 115, 118, 103>>)
                \/ Includes(content, <<60, 115, 118, 103>>)
             THEN [valid |-> TRUE, mimeType |-> Some("image/svg+xml"), extension |-> Some("svg")]
        ELSE IF b[1] = 137 /\ b[2] = 80 /\ b[3] = 78 /\ b[4] = 71
             THEN [valid |-> TRUE, mimeType |-> Some("image/png"), extension |-> Some("png")]
        ELSE IF b[1] = 255 /\ b[2] = 216 /\ b[3] = 255
             THEN [valid |-> TRUE, mimeType |-> Some("image/jpeg"), extension |-> Some("jpg")]
        ELSE IF /\ buffer.size >= 12
                /\ b[1] = 82 /\ b[2] = 73 /\ b[3] = 70 /\ b[4] = 70
                /\ b[9] = 87 /\ b[10] = 69 /\ b[11] = 66 /\ b[12] = 80
             THEN [valid |-> TRUE, mimeType |-> Some("image/webp"), extension |-> Some("webp")]
        ELSE IF b[1] = 71 /\ b[2] = 73 /\ b[3] = 70 /\ b[4] = 56
             THEN [valid |-> TRUE, mimeType |-> Some("image/gif"), extension |-> Some("gif")]
        ELSE invalid

\* validateIconType: by magic bytes, the first rule that matches.
validateIconType(buffer) ==
    LET b == buffer.head
        invalid == [valid |-> FALSE, mimeType |-> Null, extension |-> Null]
        content == TrimStart(SubSeq(b, 1, IF Len(b) < 1024 THEN Len(b) ELSE 1024))
    IN  IF buffer.size < 4 THEN invalid
        ELSE IF b[1] = 137 /\ b[2] = 80 /\ b[3] = 78 /\ b[4] = 71
             THEN [valid |-> TRUE, mimeType |-> Some("image/png"), extension |-> Some("png")]
        ELSE IF b[1] = 255 /\ b[2] = 216 /\ b[3] = 255
             THEN [valid |-> TRUE, mimeType |-> Some("image/jpeg"), extension |-> Some("jpg")]
        ELSE IF /\ buffer.size >= 12
                /\ b[1] = 82 /\ b[2] = 73 /\ b[3] = 70 /\ b[4] = 70
                /\ b[9] = 87 /\ b[10] = 69 /\ b[11] = 66 /\ b[12] = 80
             THEN [valid |-> TRUE, mimeType |-> Some("image/webp"), extension |-> Some("webp")]
        ELSE IF b[1] = 71 /\ b[2] = 73 /\ b[3] = 70 /\ b[4] = 56
             THEN [valid |-> TRUE, mimeType |-> Some("image/gif"), extension |-> Some("gif")]
        ELSE IF \/ StartsWith(content, <<60, 63, 120, 109, 108>>)
                \/ StartsWith(content, <<60, 115, 118, 103>>)
                \/ Includes(content, <<60, 115, 118, 103>>)
             THEN [valid |-> TRUE, mimeType |-> Some("image/svg+xml"), extension |-> Some("svg")]
        ELSE invalid

\* The path of storage/icons/{id}.{ext} and the URL /icons/{id}.{ext}.
IconFilePath(packageId, ext) == <<"icons", packageId, ext>>
IconUrl(packageId, ext) == <<"/icons", packageId, ext>>

\* deleteIcon: {id}.{ext} of every known extension.
deleteIcon(iconFiles, packageId) ==
    {f \in iconFiles :
        ~\E i \in 1..Len(IconExtensions) : f.path = IconFilePath(packageId, IconExtensions[i])}

\* The checks of saveIcon that come before it touches the disk.
saveIconAccepts(iconBuffer) ==
    /\ ~(iconBuffer.size > MAX_ICON_SIZE)
    /\ validateIconType(iconBuffer).valid
    /\ validateIconType(iconBuffer).extension # Null

\* ---- sanitizeSvg: the text as its bytes, the regular expressions as the
\* sequence of their parts, matched as a backtracking matcher matches them ----

Space == {9, 10, 11, 12, 13, 32}
Word == (48..57) \cup (65..90) \cup (97..122) \cup {95}
Quote == {34, 39}
AnyByte == 0..255
NotQuote == AnyByte \ Quote
NotGt == AnyByte \ {62}
NotSpaceGt == AnyByte \ (Space \cup {62})

\* The parts of an expression: a literal (compared without case, flag i), one
\* byte of a class, a repetition of a class (greedy or lazy), an optional
\* literal, a negative lookahead.
Lit(chars) == [kind |-> "lit", chars |-> chars, class |-> {}, min |-> 0, greedy |-> TRUE]
One(class) == [kind |-> "one", chars |-> <<>>, class |-> class, min |-> 1, greedy |-> TRUE]
Rep(class, min, greedy) ==
    [kind |-> "rep", chars |-> <<>>, class |-> class, min |-> min, greedy |-> greedy]
Opt(chars) == [kind |-> "opt", chars |-> chars, class |-> {}, min |-> 0, greedy |-> TRUE]
NotAhead(chars) == [kind |-> "not", chars |-> chars, class |-> {}, min |-> 0, greedy |-> TRUE]

LowerByte(b) == IF b \in 65..90 THEN b + 32 ELSE b

\* The text s holds chars at position i, case ignored.
At(s, i, chars) ==
    /\ i + Len(chars) - 1 <= Len(s)
    /\ \A j \in 1..Len(chars) : LowerByte(s[i + j - 1]) = LowerByte(chars[j])

\* The number of bytes of the class that s holds from position i on.
Run(s, i, class) ==
    LET stops == {j \in i..Len(s) : s[j] \notin class}
    IN  IF stops = {} THEN Len(s) - i + 1
        ELSE (CHOOSE j \in stops : \A k \in stops : j <= k) - i

\* The position after the match of the parts k.. of re at position i of s,
\* the first one in the order of a backtracking matcher, or 0 when there is
\* none.  A repetition takes the most bytes (greedy) or the fewest (lazy)
\* after which the parts that follow match.
RECURSIVE MatchEnd(_, _, _, _)
MatchEnd(re, k, s, i) ==
    IF k > Len(re) THEN i
    ELSE LET part == re[k]
         IN  CASE part.kind = "lit" ->
                    IF At(s, i, part.chars) THEN MatchEnd(re, k + 1, s, i + Len(part.chars))
                    ELSE 0
               [] part.kind = "one" ->
                    IF i <= Len(s) /\ s[i] \in part.class THEN MatchEnd(re, k + 1, s, i + 1)
                    ELSE 0
               [] part.kind = "not" ->
                    IF At(s, i, part.chars) THEN 0 ELSE MatchEnd(re, k + 1, s, i)
               [] part.kind = "opt" ->
                    LET taken == IF At(s, i, part.chars)
                                 THEN MatchEnd(re, k + 1, s, i + Len(part.chars)) ELSE 0
                    IN  IF taken # 0 THEN taken ELSE MatchEnd(re, k + 1, s, i)
               [] part.kind = "rep" ->
                    LET counts == {c \in part.min..Run(s, i, part.class) :
                                     MatchEnd(re, k + 1, s, i + c) # 0}
                        count == IF part.greedy
                                 THEN CHOOSE c \in counts : \A d \in counts : d <= c
                                 ELSE CHOOSE c \in counts : \A d \in counts : c <= d
                    IN  IF counts = {} THEN 0 ELSE MatchEnd(re, k + 1, s, i + count)

\* The first of the alternatives res that matches at position i: the
\* position after its match, or 0.
RECURSIVE FirstAlternative(_, _, _, _)
FirstAlternative(res, a, s, i) ==
    IF a > Len(res) THEN 0
    ELSE LET end == MatchEnd(res[a], 1, s, i)
         IN  IF end # 0 THEN end ELSE FirstAlternative(res, a + 1, s, i)

\* content.replace(/.../gi, replacement) over the positions lo..hi of s, the
\* scan standing at position i >= lo: the text that comes out and where the
\* scan stands after hi.
RECURSIVE ReplaceBetween(_, _, _, _, _, _)
ReplaceBetween(s, i, lo, hi, res, replacement) ==
    IF lo = hi
    THEN IF i > lo THEN [out |-> <<>>, next |-> i]
         ELSE LET end == FirstAlternative(res, 1, s, i)
              IN  IF end > i THEN [out |-> replacement, next |-> end]
                  ELSE [out |-> <<s[i]>>, next |-> i + 1]
    ELSE LET mid == (lo + hi) \div 2
             Then(left) ==
                 CHOOSE both \in
                     {[out |-> left.out \o right.out, next |-> right.next] :
                        right \in {ReplaceBetween(s, left.next, mid + 1, hi, res,
                                                  replacement)}} : TRUE
         IN  CHOOSE both \in
                 {Then(left) :
                    left \in {ReplaceBetween(s, i, lo, mid, res, replacement)}} : TRUE

\* The first part of the expression re matches at position i of s: without
\* it the expression has no match that starts there.
FirstPartFits(re, s, i) ==
    LET part == re[1]
    IN  CASE part.kind = "lit" -> At(s, i, part.chars)
          [] part.kind = "one" -> s[i] \in part.class
          [] part.kind = "rep" -> part.min = 0 \/ s[i] \in part.class
          [] OTHER -> TRUE

\* A text in which no alternative can start a match comes out as it is.
ReplaceAll(s, res, replacement) ==
    IF \A i \in 1..Len(s) : \A a \in 1..Len(res) : ~FirstPartFits(res[a], s, i)
    THEN s
    ELSE ReplaceBetween(s, 1, 1, Len(s), res, replacement).out

\* The replaces of sanitizeSvg in their order: the alternatives of the
\* expression and the replacement.
SvgReplaces ==
    <<
      \* /<script[\s\S]*?<\/script>/gi -> ""
      [res |-> <<<<Lit(<<60, 115, 99, 114, 105, 112, 116>>),
              Rep(AnyByte, 0, FALSE),
              Lit(<<60, 47, 115, 99, 114, 105, 112, 116, 62>>)>>>>,
       replacement |-> <<>>],
      \* /\s+on\w+\s*=\s*["'][^"']*["']/gi -> ""
      [res |-> <<<<Rep(Space, 1, TRUE),
              Lit(<<111, 110>>),
              Rep(Word, 1, TRUE),
              Rep(Space, 0, TRUE),
              Lit(<<61>>),
              Rep(Space, 0, TRUE),
              One(Quote),
              Rep(NotQuote, 0, TRUE),
              One(Quote)>>>>,
       replacement |-> <<>>],
      \* /\s+on\w+\s*=\s*[^\s>]+/gi -> ""
      [res |-> <<<<Rep(Space, 1, TRUE),
              Lit(<<111, 110>>),
              Rep(Word, 1, TRUE),
              Rep(Space, 0, TRUE),
              Lit(<<61>>),
              Rep(Space, 0, TRUE),
              Rep(NotSpaceGt, 1, TRUE)>>>>,
       replacement |-> <<>>],
      \* /href\s*=\s*["']javascript:[^"']*["']/gi -> href=""
      [res |-> <<<<Lit(<<104, 114, 101, 102>>),
              Rep(Space, 0, TRUE),
              Lit(<<61>>),
              Rep(Space, 0, TRUE),
              One(Quote),
              Lit(<<106, 97, 118, 97, 115, 99, 114, 105, 112, 116, 58>>),
              Rep(NotQuote, 0, TRUE),
              One(Quote)>>>>,
       replacement |-> <<104, 114, 101, 102, 61, 34, 34>>],
      \* /xlink:href\s*=\s*["']javascript:[^"']*["']/gi -> xlink:href=""
      [res |-> <<<<Lit(<<120, 108, 105, 110, 107, 58, 104, 114, 101, 102>>),
              Rep(Space, 0, TRUE),
              Lit(<<61>>),
              Rep(Space, 0, TRUE),
              One(Quote),
              Lit(<<106, 97, 118, 97, 115, 99, 114, 105, 112, 116, 58>>),
              Rep(NotQuote, 0, TRUE),
              One(Quote)>>>>,
       replacement |-> <<120, 108, 105, 110, 107, 58, 104, 114, 101, 102, 61, 34, 34>>],
      \* /href\s*=\s*["']data:(?!image\/)[^"']*["']/gi -> href=""
      [res |-> <<<<Lit(<<104, 114, 101, 102>>),
              Rep(Space, 0, TRUE),
              Lit(<<61>>),
              Rep(Space, 0, TRUE),
              One(Quote),
              Lit(<<100, 97, 116, 97, 58>>),
              NotAhead(<<105, 109, 97, 103, 101, 47>>),
              Rep(NotQuote, 0, TRUE),
              One(Quote)>>>>,
       replacement |-> <<104, 114, 101, 102, 61, 34, 34>>],
      \* /xlink:href\s*=\s*["']data:(?!image\/)[^"']*["']/gi -> xlink:href=""
      [res |-> <<<<Lit(<<120, 108, 105, 110, 107, 58, 104, 114, 101, 102>>),
              Rep(Space, 0, TRUE),
              Lit(<<61>>),
              Rep(Space, 0, TRUE),
              One(Quote),
              Lit(<<100, 97, 116, 97, 58>>),
              NotAhead(<<105, 109, 97, 103, 101, 47>>),
              Rep(NotQuote, 0, TRUE),
              One(Quote)>>>>,
       replacement |-> <<120, 108, 105, 110, 107, 58, 104, 114, 101, 102, 61, 34, 34>>],
      \* /<foreignObject[\s\S]*?<\/foreignObject>/gi -> ""
      [res |-> <<<<Lit(<<60, 102, 111, 114, 101, 105, 103, 110, 111, 98, 106, 101, 99, 116>>),
              Rep(AnyByte, 0, FALSE),
              Lit(<<60, 47, 102, 111, 114, 101, 105, 103, 110, 111, 98, 106, 101, 99, 116, 62>>)>>>>,
       replacement |-> <<>>],
      \* /<use[^>]*xlink:href\s*=\s*["'](?!#)[^"']*["'][^>]*\/?>/gi -> ""
      [res |-> <<<<Lit(<<60, 117, 115, 101>>),
              Rep(NotGt, 0, TRUE),
              Lit(<<120, 108, 105, 110, 107, 58, 104, 114, 101, 102>>),
              Rep(Space, 0, TRUE),
              Lit(<<61>>),
              Rep(Space, 0, TRUE),
              One(Quote),
              NotAhead(<<35>>),
              Rep(NotQuote, 0, TRUE),
              One(Quote),
              Rep(NotGt, 0, TRUE),
              Opt(<<47>>),
              Lit(<<62>>)>>>>,
       replacement |-> <<>>],
      \* /<(iframe|embed|object)[\s\S]*?<\/\1>/gi -> ""
      [res |-> <<<<Lit(<<60, 105, 102, 114, 97, 109, 101>>),
              Rep(AnyByte, 0, FALSE),
              Lit(<<60, 47, 105, 102, 114, 97, 109, 101, 62>>)>>,
            <<Lit(<<60, 101, 109, 98, 101, 100>>),
              Rep(AnyByte, 0, FALSE),
              Lit(<<60, 47, 101, 109, 98, 101, 100, 62>>)>>,
            <<Lit(<<60, 111, 98, 106, 101, 99, 116>>),
              Rep(AnyByte, 0, FALSE),
              Lit(<<60, 47, 111, 98, 106, 101, 99, 116, 62>>)>>>>,
       replacement |-> <<>>],
      \* /<(iframe|embed|object)[^>]*\/?>/gi -> ""
      [res |-> <<<<Lit(<<60, 105, 102, 114, 97, 109, 101>>),
              Rep(NotGt, 0, TRUE),
              Opt(<<47>>),
              Lit(<<62>>)>>,
            <<Lit(<<60, 101, 109, 98, 101, 100>>),
              Rep(NotGt, 0, TRUE),
              Opt(<<47>>),
              Lit(<<62>>)>>,
            <<Lit(<<60, 111, 98, 106, 101, 99, 116>>),
              Rep(NotGt, 0, TRUE),
              Opt(<<47>>),
              Lit(<<62>>)>>>>,
       replacement |-> <<>>],
      \* /<set[^>]*on\w+[^>]*\/?>/gi -> ""
      [res |-> <<<<Lit(<<60, 115, 101, 116>>),
              Rep(NotGt, 0, TRUE),
              Lit(<<111, 110>>),
              Rep(Word, 1, TRUE),
              Rep(NotGt, 0, TRUE),
              Opt(<<47>>),
              Lit(<<62>>)>>>>,
       replacement |-> <<>>],
      \* /<animate[^>]*on\w+[^>]*\/?>/gi -> ""
      [res |-> <<<<Lit(<<60, 97, 110, 105, 109, 97, 116, 101>>),
              Rep(NotGt, 0, TRUE),
              Lit(<<111, 110>>),
              Rep(Word, 1, TRUE),
              Rep(NotGt, 0, TRUE),
              Opt(<<47>>),
              Lit(<<62>>)>>>>,
       replacement |-> <<>>]>>

\* The replaces one after the other.
RECURSIVE ReplaceInOrder(_, _)
ReplaceInOrder(content, n) ==
    IF n = 0 THEN content
    ELSE ReplaceAll(ReplaceInOrder(content, n - 1), SvgReplaces[n].res,
                    SvgReplaces[n].replacement)

\* sanitizeSvg: the buffer as text, the replaces, the text as a buffer.
sanitizeSvg(buffer) ==
    LET content == ReplaceInOrder(buffer.head, Len(SvgReplaces))
    IN  Buffer(Len(content), content)

\* The write of saveIcon, after its deleteIcon.
saveIconWrite(iconFiles, packageId, iconBuffer, fault) ==
    LET ext == validateIconType(iconBuffer).extension[1]
        bufferToSave == IF ext = "svg" THEN sanitizeSvg(iconBuffer) ELSE iconBuffer
        filePath == IconFilePath(packageId, ext)
    IN  IF fault \in {"mkdir", "open"}
        THEN [threw |-> TRUE, files |-> iconFiles, iconUrl |-> Null]
        ELSE IF fault = "write"
        THEN [threw |-> TRUE, files |-> WriteFile(iconFiles, filePath, Truncated),
              iconUrl |-> Null]
        ELSE [threw |-> FALSE, files |-> WriteFile(iconFiles, filePath, bufferToSave),
              iconUrl |-> Some(IconUrl(packageId, ext))]

---------------------------------------------------------------------------
(* State *)

VARIABLES
    packages,          \* table packages: a set of rows
    pkgSeq,            \* its AUTOINCREMENT sequence: the largest id handed out
    tags,              \* table tags: a set of rows [id, name, slug]
    tagSeq,            \* its AUTOINCREMENT sequence
    users,             \* table users: a set of rows [id, role]
    download_history,  \* table download_history: rows [id, package_id, date, download_count]
    histSeq,           \* its AUTOINCREMENT sequence
    foreign_keys,      \* whether the connection enforces foreign keys
    schema,            \* the columns of the tables: pairs <<table, column>>
    package_tags,      \* table package_tags: rows [package_id, tag_id]
    boot,              \* where startup stands, and the initDB runs completed
    rateLimitStore,    \* the entry [count, resetTime] of each client IP
    loginRateLimitStore, \* the same for POST /auth/login
    admitted,          \* history: the requests a limiter let through, a
                       \* bag of [store, ip, at]
    addonDirs,         \* the package directories under storage/addons
    addonFiles,        \* the files under them: [path, data]
    iconFiles,         \* the files under storage/icons: [path, data]
    now,               \* Date.now()
    pc,                \* where each handler stands
    call,              \* its request and its local variables
    result,            \* the response it returned
    wrote,             \* history: whether the call in flight has changed a
                       \* catalog row or a stored file so far
    recorded,          \* history: the recordDownload calls that made their
                       \* first write, per package id and day
    calls              \* history: the create, update and delete requests so far

vars == <<packages, pkgSeq, tags, tagSeq, users, download_history, histSeq, foreign_keys,
          schema, package_tags, boot, rateLimitStore, loginRateLimitStore, admitted,
          addonDirs, addonFiles, iconFiles, now, pc, call, result, wrote, recorded,
          calls>>

catalogVars ==
    <<packages, pkgSeq, tags, tagSeq, users, download_history, histSeq, foreign_keys>>
storeVars == <<addonDirs, addonFiles, iconFiles>>

---------------------------------------------------------------------------
(* Catalog: db_controller.ts *)

\* ---- Startup: initDB, runMigrations, seedDefaultTags ----

\* The columns a CREATE TABLE IF NOT EXISTS of initDB gives its table.
CreatedColumns ==
    [users |-> {"id", "username", "email", "password_hash", "role", "created_at"},
     packages |-> {"id", "name", "description", "author_id", "file_path", "file_hash",
                   "version", "downloads", "updated_at", "created_at"},
     tags |-> {"id", "name", "slug", "created_at"},
     package_tags |-> {"package_id", "tag_id"},
     download_history |-> {"id", "package_id", "date", "download_count", "created_at",
                           "updated_at"}]

TableExists(sch, table) == \E c \in sch : c[1] = table

\* CREATE TABLE IF NOT EXISTS, for every table of initDB.
CreateTables(sch) ==
    sch \cup {c \in UNION {{<<t, col>> : col \in CreatedColumns[t]} : t \in DOMAIN CreatedColumns} :
                ~TableExists(sch, c[1])}

\* PRAGMA table_info(table) has no column of that name: ALTER TABLE ADD COLUMN.
AddColumnIfAbsent(sch, table, column) == sch \cup {<<table, column>>}

\* The columns runMigrations adds to packages before category_id, in order.
AddedColumns == <<"icon_url", "kofi_url", "long_description", "min_game_version",
                  "max_game_version", "youtube_url", "discord_url">>

RECURSIVE AddColumns(_, _, _)
AddColumns(sch, table, columns) ==
    IF columns = <<>> THEN sch
    ELSE AddColumns(AddColumnIfAbsent(sch, table, Head(columns)), table, Tail(columns))

\* SELECT MIN(tag_id) FROM package_tags WHERE package_id = packageId
MinTagId(links, packageId) ==
    LET ids == {l.tag_id : l \in {m \in links : m.package_id = packageId}}
    IN  CHOOSE i \in ids : \A j \in ids : i <= j

\* UPDATE packages SET category_id = tag_id WHERE id = package_id, for the
\* first tag of every package that has tags.
TagsToCategory(rows, links) ==
    {IF \E l \in links : l.package_id = r.id
     THEN [r EXCEPT !.category_id = <<MinTagId(links, r.id)>>]
     ELSE r : r \in rows}

\* The remap table of migrateToNewCategories: old slug, new slug.
tagMigrationMap ==
    <<<<<<"i", "t", "e", "m", "s">>, <<"e", "q", "u", "i", "p", "m", "e", "n", "t">>>>,
      <<<<"b", "l", "o", "c", "k", "s">>, <<"d", "e", "c", "o", "r", "a", "t", "i", "o", "n">>>>,
      <<<<"b", "i", "o", "m", "e", "s">>, <<"w", "o", "r", "l", "d", "-", "g", "e", "n", "e", "r", "a", "t", "i", "o", "n">>>>,
      <<<<"d", "i", "m", "e", "n", "s", "i", "o", "n", "s">>, <<"w", "o", "r", "l", "d", "-", "g", "e", "n", "e", "r", "a", "t", "i", "o", "n">>>>,
      <<<<"w", "e", "a", "p", "o", "n", "s">>, <<"e", "q", "u", "i", "p", "m", "e", "n", "t">>>>,
      <<<<"t", "o", "o", "l", "s">>, <<"e", "q", "u", "i", "p", "m", "e", "n", "t">>>>,
      <<<<"a", "r", "m", "o", "r">>, <<"e", "q", "u", "i", "p", "m", "e", "n", "t">>>>,
      <<<<"s", "u", "r", "v", "i", "v", "a", "l">>, <<"g", "a", "m", "e", "-", "m", "e", "c", "h", "a", "n", "i", "c", "s">>>>,
      <<<<"c", "r", "e", "a", "t", "i", "v", "e">>, <<"u", "t", "i", "l", "i", "t", "y">>>>,
      <<<<"q", "o", "l">>, <<"u", "t", "i", "l", "i", "t", "y">>>>,
      <<<<"u", "t", "i", "l", "i", "t", "i", "e", "s">>, <<"u", "t", "i", "l", "i", "t", "y">>>>,
      <<<<"t", "w", "e", "a", "k", "s">>, <<"g", "a", "m", "e", "-", "m", "e", "c", "h", "a", "n", "i", "c", "s">>>>,
      <<<<"o", "v", "e", "r", "h", "a", "u", "l">>, <<"g", "a", "m", "e", "-", "m", "e", "c", "h", "a", "n", "i", "c", "s">>>>>>

\* migrateToNewCategories: when no tag has the slug game-mechanics, it looks
\* up the tag of every old slug of the remap table, and writes nothing.
migrateToNewCategories(rows, tagRows) == rows

\* runMigrations on db = [schema, packages, tags, tagSeq, package_tags].
runMigrations(db) ==
    LET withRole == AddColumnIfAbsent(db.schema, "users", "role")
        withUrls == AddColumns(withRole, "packages", AddedColumns)
        hasCategoryIdColumn == <<"packages", "category_id">> \in withUrls
        rows == IF hasCategoryIdColumn THEN db.packages
                ELSE TagsToCategory(db.packages, db.package_tags)
    IN  [db EXCEPT !.schema = AddColumnIfAbsent(withUrls, "packages", "category_id"),
                   !.packages = migrateToNewCategories(rows, db.tags)]

defaultCategories ==
    <<[name |-> <<"A", "d", "v", "e", "n", "t", "u", "r", "e">>,
       slug |-> <<"a", "d", "v", "e", "n", "t", "u", "r", "e">>],
      [name |-> <<"D", "e", "c", "o", "r", "a", "t", "i", "o", "n">>,
       slug |-> <<"d", "e", "c", "o", "r", "a", "t", "i", "o", "n">>],
      [name |-> <<"E", "c", "o", "n", "o", "m", "y">>,
       slug |-> <<"e", "c", "o", "n", "o", "m", "y">>],
      [name |-> <<"E", "q", "u", "i", "p", "m", "e", "n", "t">>,
       slug |-> <<"e", "q", "u", "i", "p", "m", "e", "n", "t">>],
      [name |-> <<"F", "o", "o", "d">>,
       slug |-> <<"f", "o", "o", "d">>],
      [name |-> <<"G", "a", "m", "e", " ", "M", "e", "c", "h", "a", "n", "i", "c", "s">>,
       slug |-> <<"g", "a", "m", "e", "-", "m", "e", "c", "h", "a", "n", "i", "c", "s">>],
      [name |-> <<"M", "a", "g", "i", "c">>,
       slug |-> <<"m", "a", "g", "i", "c">>],
      [name |-> <<"M", "a", "n", "a", "g", "e", "m", "e", "n", "t">>,
       slug |-> <<"m", "a", "n", "a", "g", "e", "m", "e", "n", "t">>],
      [name |-> <<"M", "i", "n", "i", "g", "a", "m", "e">>,
       slug |-> <<"m", "i", "n", "i", "g", "a", "m", "e">>],
      [name |-> <<"M", "o", "b", "s">>,
       slug |-> <<"m", "o", "b", "s">>],
      [name |-> <<"O", "p", "t", "i", "m", "i", "s", "a", "t", "i", "o", "n">>,
       slug |-> <<"o", "p", "t", "i", "m", "i", "s", "a", "t", "i", "o", "n">>],
      [name |-> <<"S", "o", "c", "i", "a", "l">>,
       slug |-> <<"s", "o", "c", "i", "a", "l">>],
      [name |-> <<"S", "t", "o", "r", "a", "g", "e">>,
       slug |-> <<"s", "t", "o", "r", "a", "g", "e">>],
      [name |-> <<"T", "e", "c", "h", "n", "o", "l", "o", "g", "y">>,
       slug |-> <<"t", "e", "c", "h", "n", "o", "l", "o", "g", "y">>],
      [name |-> <<"T", "r", "a", "n", "s", "p", "o", "r", "t", "a", "t", "i", "o", "n">>,
       slug |-> <<"t", "r", "a", "n", "s", "p", "o", "r", "t", "a", "t", "i", "o", "n">>],
      [name |-> <<"U", "t", "i", "l", "i", "t", "y">>,
       slug |-> <<"u", "t", "i", "l", "i", "t", "y">>],
      [name |-> <<"W", "o", "r", "l", "d", " ", "G", "e", "n", "e", "r", "a", "t", "i", "o", "n">>,
       slug |-> <<"w", "o", "r", "l", "d", "-", "g", "e", "n", "e", "r", "a", "t", "i", "o", "n">>],
      [name |-> <<"A", "d", "m", "i", "n", "i", "s", "t", "r", "a", "t", "i", "o", "n">>,
       slug |-> <<"a", "d", "m", "i", "n", "i", "s", "t", "r", "a", "t", "i", "o", "n">>],
      [name |-> <<"A", "n", "t", "i", "-", "C", "h", "e", "a", "t">>,
       slug |-> <<"a", "n", "t", "i", "-", "c", "h", "e", "a", "t">>],
      [name |-> <<"C", "h", "a", "t">>,
       slug |-> <<"c", "h", "a", "t">>],
      [name |-> <<"M", "o", "d", "e", "r", "a", "t", "i", "o", "n">>,
       slug |-> <<"m", "o", "d", "e", "r", "a", "t", "i", "o", "n">>],
      [name |-> <<"P", "e", "r", "m", "i", "s", "s", "i", "o", "n", "s">>,
       slug |-> <<"p", "e", "r", "m", "i", "s", "s", "i", "o", "n", "s">>]>>

\* An INSERT INTO tags that takes the row whatever the table holds.
InsertOrIgnoreTag_always(tagRows, seq, name, slug) ==
    [rows |-> tagRows \cup {[id |-> seq + 1, name |-> name, slug |-> slug]},
     seq |-> seq + 1]

\* INSERT OR IGNORE INTO tags (name, slug): the row is dropped when a tag
\* has that name or that slug (both columns are UNIQUE).
InsertOrIgnoreTag(tagRows, seq, name, slug) ==
    IF \E t \in tagRows : t.name = name \/ t.slug = slug
    THEN [rows |-> tagRows, seq |-> seq]
    ELSE [rows |-> tagRows \cup {[id |-> seq + 1, name |-> name, slug |-> slug]},
          seq |-> seq + 1]

RECURSIVE SeedFrom(_, _, _)
SeedFrom(tagRows, seq, categories) ==
    IF categories = <<>> THEN [rows |-> tagRows, seq |-> seq]
    ELSE LET ins == InsertOrIgnoreTag(tagRows, seq, Head(categories).name,
                                      Head(categories).slug)
         IN  SeedFrom(ins.rows, ins.seq, Tail(categories))

seedDefaultTags(tagRows, seq) == SeedFrom(tagRows, seq, defaultCategories)

\* The schema a database has once initDB has run.
CurrentSchema ==
    AddColumnIfAbsent(AddColumns(CreateTables({}), "packages", AddedColumns),
                      "packages", "category_id")

\* The server has started: initDB has run once.
Started == [at |-> "up", runs |-> 1]

\* results[0] of a SELECT: the row, or undefined.
First(rows) == IF rows = {} THEN Null ELSE Some(CHOOSE r \in rows : TRUE)

getPackage(name) == First({r \in packages : r.name = name})
SelectPackageById(packageId) == First({r \in packages : r.id = packageId})
getUserById(userId) == First({u \in users : u.id = userId})
getTagBySlug(slug) == First({t \in tags : t.slug = slug})
getTagById(tagId) == First({t \in tags : t.id = tagId})

\* An argument that was not passed, or was passed undefined, is no key of
\* the argument record.
Arg(a, k) == IF k \in DOMAIN a THEN a[k] ELSE Null

\* A table packages whose name column is not UNIQUE.
NameTaken_noConstraint(rows, name, id) == FALSE

\* UNIQUE(name) of table packages, for a row that is not row id.
NameTaken(rows, name, id) == \E r \in rows : r.name = name /\ r.id # id

\* category_id INTEGER REFERENCES tags(id): a value that is no id of a tag
\* is refused when the connection enforces foreign keys.
CategoryMissing(category_id) ==
    /\ foreign_keys
    /\ category_id # Null
    /\ getTagById(category_id[1]) = Null

\* DB.createPackage: INSERT INTO packages ... RETURNING *.
DB_createPackage(rows, seq, a) ==
    LET row == [id |-> seq + 1,
                name |-> a["name"],
                description |-> a["description"],
                author_id |-> a["authorId"],
                file_path |-> a["filePath"],
                file_hash |-> a["fileHash"],
                version |-> a["version"],
                downloads |-> 0,
                icon_url |-> OrNull(Arg(a, "iconUrl")),
                kofi_url |-> OrNull(Arg(a, "kofiUrl")),
                long_description |-> OrNull(Arg(a, "longDescription")),
                youtube_url |-> OrNull(Arg(a, "youtubeUrl")),
                discord_url |-> OrNull(Arg(a, "discordUrl")),
                category_id |-> OrNullNumber(Arg(a, "categoryId"))]
    IN  IF NameTaken(rows, a["name"], 0) \/ CategoryMissing(row.category_id)
        THEN [threw |-> TRUE, rows |-> rows, seq |-> seq, row |-> Null]
        ELSE [threw |-> FALSE, rows |-> rows \cup {row}, seq |-> seq + 1,
              row |-> Some(row)]

\* An updatePackage for which an argument that was not passed clears the
\* column.
UpdateValues_falsyClears(current, a) ==
    [name |-> IF "name" \in DOMAIN a THEN a["name"] ELSE current.name,
     description |-> IF "description" \in DOMAIN a THEN a["description"]
                     ELSE current.description,
     version |-> IF "version" \in DOMAIN a THEN a["version"] ELSE current.version,
     icon_url |-> OrNull(Arg(a, "iconUrl")),
     kofi_url |-> OrNull(Arg(a, "kofiUrl")),
     long_description |-> OrNull(Arg(a, "longDescription")),
     youtube_url |-> OrNull(Arg(a, "youtubeUrl")),
     discord_url |-> OrNull(Arg(a, "discordUrl")),
     category_id |-> OrNullNumber(Arg(a, "categoryId"))]

\* DB.updatePackage, the values of its UPDATE: those passed, or those of the
\* row it read (current).
UpdateValues(current, a) ==
    [name |-> IF "name" \in DOMAIN a THEN a["name"] ELSE current.name,
     description |-> IF "description" \in DOMAIN a THEN a["description"]
                     ELSE current.description,
     version |-> IF "version" \in DOMAIN a THEN a["version"] ELSE current.version,
     icon_url |-> IF "iconUrl" \in DOMAIN a THEN OrNull(a["iconUrl"])
                  ELSE current.icon_url,
     kofi_url |-> IF "kofiUrl" \in DOMAIN a THEN OrNull(a["kofiUrl"])
                  ELSE current.kofi_url,
     long_description |-> IF "longDescription" \in DOMAIN a
                          THEN OrNull(a["longDescription"])
                          ELSE current.long_description,
     youtube_url |-> IF "youtubeUrl" \in DOMAIN a THEN OrNull(a["youtubeUrl"])
                     ELSE current.youtube_url,
     discord_url |-> IF "discordUrl" \in DOMAIN a THEN OrNull(a["discordUrl"])
                     ELSE current.discord_url,
     category_id |-> IF "categoryId" \in DOMAIN a THEN a["categoryId"]
                     ELSE current.category_id]

\* DB.updatePackage, its UPDATE ... WHERE id = packageId: the columns it
\* sets, in the row as it is stored now.
DB_updatePackage(rows, packageId, current, a) ==
    LET v == UpdateValues(current, a)
        set(r) == [r EXCEPT !.name = v.name,
                            !.description = v.description,
                            !.version = v.version,
                            !.icon_url = v.icon_url,
                            !.kofi_url = v.kofi_url,
                            !.long_description = v.long_description,
                            !.youtube_url = v.youtube_url,
                            !.discord_url = v.discord_url,
                            !.category_id = v.category_id]
    IN  IF ~\E r \in rows : r.id = packageId
        THEN [threw |-> FALSE, rows |-> rows]
        ELSE IF NameTaken(rows, v.name, packageId) \/ CategoryMissing(v.category_id)
        THEN [threw |-> TRUE, rows |-> rows]
        ELSE [threw |-> FALSE,
              rows |-> {IF r.id = packageId THEN set(r) ELSE r : r \in rows}]

\* A DELETE that matches no row.
DB_deletePackage_noRow(rows, packageId) == rows

\* DB.deletePackage: DELETE FROM packages WHERE id = packageId.
DB_deletePackage(rows, packageId) == {r \in rows : r.id # packageId}

\* ON DELETE CASCADE of download_history.package_id, when enforced.
CascadeHistory(history, packageId) ==
    IF foreign_keys THEN {h \in history : h.package_id # packageId} ELSE history

\* DB.getFullPackageData: the row with its author and category, or null.
getFullPackageData(packageName) ==
    LET pkg == getPackage(packageName)
    IN  IF pkg = Null THEN Null
        ELSE Some([pkg |-> pkg[1],
                   author |-> getUserById(pkg[1].author_id),
                   category |-> IF pkg[1].category_id # Null
                                THEN getTagById(pkg[1].category_id[1])
                                ELSE Null])

---------------------------------------------------------------------------
(* Request handlers: the server's routes *)

Idle == [op |-> "idle"]
NoResult == [status |-> 0, error |-> "", data |-> Null]

\* The handler returns a response.
Respond(p, status, error, data) ==
    /\ pc' = [pc EXCEPT ![p] = "done"]
    /\ result' = [result EXCEPT ![p] = [status |-> status, error |-> error, data |-> data]]

\* The handler goes on to its next await.
Goto(p, label) ==
    /\ pc' = [pc EXCEPT ![p] = label]
    /\ UNCHANGED result

\* The outcome of a handler's local computation: where it goes next, or the
\* response it returns.
Next_(label) == [goto |-> label, status |-> 0, error |-> ""]
Fail(status, error) == [goto |-> "done", status |-> status, error |-> error]

Proceed(p, o) ==
    IF o.goto = "done" THEN Respond(p, o.status, o.error, Null) ELSE Goto(p, o.goto)

\* A value of the request body that is set and truthy.
Truthy(body, k) == k \in DOMAIN body /\ body[k] # EmptyString
\* A nullable value of the request body that is set, not null and not "".
Given(body, k) == k \in DOMAIN body /\ body[k] # Null /\ body[k] # Some(EmptyString)

DefaultVersion == <<"1", ".", "0", ".", "0">>

\* trim().toLowerCase() of a category slug.
UpperCase == <<"A", "B", "C", "D", "E", "F", "G", "H", "I", "J", "K", "L", "M",
               "N", "O", "P", "Q", "R", "S", "T", "U", "V", "W", "X", "Y", "Z">>
LowerCase == <<"a", "b", "c", "d", "e", "f", "g", "h", "i", "j", "k", "l", "m",
               "n", "o", "p", "q", "r", "s", "t", "u", "v", "w", "x", "y", "z">>
toLowerCase(s) ==
    [i \in 1..Len(s) |->
        IF \E k \in 1..26 : UpperCase[k] = s[i]
        THEN LowerCase[CHOOSE k \in 1..26 : UpperCase[k] = s[i]]
        ELSE s[i]]
RECURSIVE TrimSpaces(_)
TrimSpaces(s) ==
    IF s # <<>> /\ Head(s) = " " THEN TrimSpaces(Tail(s))
    ELSE IF s # <<>> /\ s[Len(s)] = " " THEN TrimSpaces(SubSeq(s, 1, Len(s) - 1))
    ELSE s
CategorySlug(category) == toLowerCase(TrimSpaces(category))

\* A handler that takes every request to carry a valid token.
NoToken_never(r) == FALSE

\* extractToken / verifyToken: the request carries a valid token of user
\* actor, or (actor = 0) none.
NoToken(r) == r.actor = 0

---------------------------------------------------------------------------
(* POST /packages *)

\* Token and role, then the checks of the body that come before the first
\* look at the catalog.
CreateChecks(r) ==
    LET body == r.body
        currentUser == getUserById(r.actor)
    IN  IF NoToken(r) THEN Fail(401, "Unauthorized")
        ELSE IF currentUser = Null
                \/ (currentUser[1].role # "developer" /\ currentUser[1].role # "admin")
             THEN Fail(403, "Forbidden")
        ELSE IF ~Truthy(body, "name") THEN Fail(400, "Package name is required")
        ELSE IF ~validatePackageName(body["name"]) THEN Fail(400, "Invalid package name")
        ELSE IF Truthy(body, "version") /\ ~validateVersion(body["version"])
             THEN Fail(400, "Invalid version")
        ELSE IF "fileBase64" \notin DOMAIN body THEN Fail(400, "Package file is required")
        ELSE IF body["fileBase64"].size > MAX_FILE_SIZE THEN Fail(400, "File too large")
        ELSE IF \/ body["fileBase64"].size < 4
                \/ ~(/\ body["fileBase64"].head[1] = 80
                     /\ body["fileBase64"].head[2] = 75
                     /\ body["fileBase64"].head[3] = 3
                     /\ body["fileBase64"].head[4] = 4)
             THEN Fail(400, "Invalid file format")
        ELSE Next_("c_getPackage")

CreateStart(p, r) ==
    /\ pc[p] = "idle"
    /\ call' = [call EXCEPT ![p] =
                   [op |-> "create", actor |-> r.actor, body |-> r.body,
                    name |-> IF "name" \in DOMAIN r.body THEN r.body["name"] ELSE EmptyString,
                    packageId |-> 0, categoryId |-> Null, iconUrl |-> Null,
                    current |-> Null, saved |-> Null]]
    /\ Proceed(p, CreateChecks(r))
    /\ UNCHANGED <<catalogVars, storeVars, now>>

\* The checks that follow the look-up of the name.
CreateLinkChecks(body) ==
    IF Truthy(body, "kofiUrl") /\ ~kofiUrlPattern(body["kofiUrl"])
    THEN Fail(400, "Invalid Ko-fi URL")
    ELSE IF Truthy(body, "youtubeUrl") /\ ~youtubeUrlPattern(body["youtubeUrl"])
    THEN Fail(400, "Invalid YouTube URL")
    ELSE IF Truthy(body, "discordUrl") /\ ~discordUrlPattern(body["discordUrl"])
    THEN Fail(400, "Invalid Discord URL")
    ELSE IF Truthy(body, "category") THEN Next_("c_getTag")
    ELSE Next_("c_insert")

CreateGetPackage(p) ==
    /\ pc[p] = "c_getPackage"
    /\ Proceed(p, IF getPackage(call[p].name) # Null
                  THEN Fail(409, "Package name already exists")
                  ELSE CreateLinkChecks(call[p].body))
    /\ UNCHANGED <<catalogVars, storeVars, now, call>>

CreateGetTag(p) ==
    /\ pc[p] = "c_getTag"
    /\ LET categoryRecord == getTagBySlug(CategorySlug(call[p].body["category"]))
       IN  IF categoryRecord = Null
           THEN Respond(p, 400, "Category not found", Null) /\ UNCHANGED call
           ELSE /\ Goto(p, "c_insert")
                /\ call' = [call EXCEPT ![p].categoryId = Some(categoryRecord[1].id)]
    /\ UNCHANGED <<catalogVars, storeVars, now>>

\* The arguments of database.createPackage.
CreateArgs(c) ==
    LET body == c.body
        opt(k) == IF Truthy(body, k) THEN Some(body[k]) ELSE Null
    IN  [name |-> c.name,
         description |-> IF Truthy(body, "description") THEN body["description"]
                         ELSE EmptyString,
         authorId |-> c.actor,
         filePath |-> EmptyString,
         fileHash |-> EmptyString,
         version |-> IF Truthy(body, "version") THEN body["version"] ELSE DefaultVersion,
         iconUrl |-> Null,
         kofiUrl |-> opt("kofiUrl"),
         longDescription |-> opt("longDescription"),
         youtubeUrl |-> opt("youtubeUrl"),
         discordUrl |-> opt("discordUrl"),
         categoryId |-> c.categoryId]

CreateInsert(p) ==
    /\ pc[p] = "c_insert"
    /\ pkgSeq < MaxId
    /\ LET ins == DB_createPackage(packages, pkgSeq, CreateArgs(call[p]))
       IN  /\ packages' = ins.rows
           /\ pkgSeq' = ins.seq
           /\ IF ins.threw
              THEN Respond(p, 500, "Failed to create package", Null) /\ UNCHANGED call
              ELSE /\ Goto(p, "c_saveAddon")
                   /\ call' = [call EXCEPT ![p].packageId = ins.row[1].id]
    /\ UNCHANGED <<tags, tagSeq, users, download_history, histSeq, foreign_keys, storeVars, now>>

\* A create that fails when saveIcon rejects the icon.
CreateAfterSave_iconFails(body) ==
    IF "iconBase64" \notin DOMAIN body THEN "c_fetch"
    ELSE IF saveIconAccepts(body["iconBase64"]) THEN "c_iconDelete" ELSE "c_cleanupRow"

\* After saveAddon: saveIcon's checks when an icon came with the request.
CreateAfterSave(body) ==
    IF "iconBase64" \in DOMAIN body /\ saveIconAccepts(body["iconBase64"])
    THEN "c_iconDelete" ELSE "c_fetch"

CreateSaveAddon(p) ==
    /\ pc[p] = "c_saveAddon"
    /\ \E fault \in FsFaults :
         LET sv == saveAddon(addonDirs, addonFiles, call[p].packageId, call[p].name,
                             call[p].body["fileBase64"], now, fault)
         IN  /\ addonDirs' = sv.dirs
             /\ addonFiles' = sv.files
             /\ IF sv.threw
                THEN Goto(p, "c_cleanupRow") /\ UNCHANGED call
                ELSE /\ Goto(p, CreateAfterSave(call[p].body))
                     /\ call' = [call EXCEPT ![p].saved =
                                    Some([filePath |-> sv.filePath, fileHash |-> sv.fileHash])]
    /\ UNCHANGED <<catalogVars, iconFiles, now>>

\* saveIcon: its deleteIcon.
CreateIconDelete(p) ==
    /\ pc[p] = "c_iconDelete"
    /\ iconFiles' = deleteIcon(iconFiles, call[p].packageId)
    /\ Goto(p, "c_iconWrite")
    /\ UNCHANGED <<catalogVars, addonDirs, addonFiles, now, call>>

\* saveIcon: its writeFile.  A failure is logged and the create goes on.
CreateIconWrite(p) ==
    /\ pc[p] = "c_iconWrite"
    /\ \E fault \in FsFaults :
         LET w == saveIconWrite(iconFiles, call[p].packageId, call[p].body["iconBase64"], fault)
         IN  /\ iconFiles' = w.files
             /\ IF w.threw
                THEN Goto(p, "c_fetch") /\ UNCHANGED call
                ELSE /\ Goto(p, "c_dbSelect")
                     /\ call' = [call EXCEPT ![p].iconUrl = w.iconUrl]
    /\ UNCHANGED <<catalogVars, addonDirs, addonFiles, now>>

\* database.updatePackage(packageId, ..., iconUrl): its SELECT.
CreateDbSelect(p) ==
    /\ pc[p] = "c_dbSelect"
    /\ LET currentPkg == SelectPackageById(call[p].packageId)
       IN  /\ call' = [call EXCEPT ![p].current = currentPkg]
           /\ Goto(p, IF currentPkg = Null THEN "c_fetch" ELSE "c_dbUpdate")
    /\ UNCHANGED <<catalogVars, storeVars, now>>

\* ... and its UPDATE.
CreateDbUpdate(p) ==
    /\ pc[p] = "c_dbUpdate"
    /\ LET up == DB_updatePackage(packages, call[p].packageId, call[p].current[1],
                                  [iconUrl |-> call[p].iconUrl])
       IN  /\ packages' = up.rows
           /\ Goto(p, IF up.threw THEN "c_cleanupRow" ELSE "c_fetch")
    /\ UNCHANGED <<pkgSeq, tags, tagSeq, users, download_history, histSeq, foreign_keys,
                   storeVars, now, call>>

\* The catch of the save: database.deletePackage ...
CreateCleanupRow(p) ==
    /\ pc[p] = "c_cleanupRow"
    /\ packages' = DB_deletePackage(packages, call[p].packageId)
    /\ download_history' = CascadeHistory(download_history, call[p].packageId)
    /\ Goto(p, "c_cleanupIcon")
    /\ UNCHANGED <<pkgSeq, tags, tagSeq, users, histSeq, foreign_keys, storeVars, now, call>>

\* ... then deleteIcon, and the error goes to the outer catch.
CreateCleanupIcon(p) ==
    /\ pc[p] = "c_cleanupIcon"
    /\ iconFiles' = deleteIcon(iconFiles, call[p].packageId)
    /\ Respond(p, 500, "Failed to create package", Null)
    /\ UNCHANGED <<catalogVars, addonDirs, addonFiles, now, call>>

CreateFetch(p) ==
    /\ pc[p] = "c_fetch"
    /\ Respond(p, 201, "", getFullPackageData(call[p].name))
    /\ UNCHANGED <<catalogVars, storeVars, now, call>>

---------------------------------------------------------------------------
(* PUT /packages/:id *)

\* The file part of the handler: the checks of the archive.
UpdateFileStage(body) ==
    IF "fileBase64" \notin DOMAIN body THEN Next_("u_dbSelect")
    ELSE IF body["fileBase64"].size > MAX_FILE_SIZE THEN Fail(400, "File too large")
    ELSE IF \/ body["fileBase64"].size < 4
            \/ ~(/\ body["fileBase64"].head[1] = 80
                 /\ body["fileBase64"].head[2] = 75
                 /\ body["fileBase64"].head[3] = 3
                 /\ body["fileBase64"].head[4] = 4)
         THEN Fail(400, "Invalid file format")
    ELSE Next_("u_deleteAddon")

\* The icon part of the handler: the size check, before deleteIcon.
UpdateIconStage(body) ==
    IF "iconBase64" \notin DOMAIN body THEN UpdateFileStage(body)
    ELSE IF body["iconBase64"].size > 2 * 1024 * 1024 THEN Fail(400, "Icon file too large")
    ELSE Next_("u_iconDelete")

\* Version and links, then the category.
UpdateLinkChecks(body) ==
    IF Truthy(body, "version") /\ ~validateVersion(body["version"])
    THEN Fail(400, "Invalid version")
    ELSE IF Given(body, "kofiUrl") /\ ~kofiUrlPattern(body["kofiUrl"][1])
    THEN Fail(400, "Invalid Ko-fi URL")
    ELSE IF Given(body, "youtubeUrl") /\ ~youtubeUrlPattern(body["youtubeUrl"][1])
    THEN Fail(400, "Invalid YouTube URL")
    ELSE IF Given(body, "discordUrl") /\ ~discordUrlPattern(body["discordUrl"][1])
    THEN Fail(400, "Invalid Discord URL")
    ELSE IF Given(body, "category") THEN Next_("u_getTag")
    ELSE UpdateIconStage(body)

\* Token, the row, the user and the ownership, then the name.
UpdateChecks(r) ==
    LET body == r.body
        pkg == SelectPackageById(r.id)
        currentUser == getUserById(r.actor)
    IN  IF NoToken(r) THEN Fail(401, "Unauthorized")
        ELSE IF pkg = Null THEN Fail(404, "Package not found")
        ELSE IF currentUser = Null THEN Fail(401, "Unauthorized: User not found")
        ELSE IF pkg[1].author_id # r.actor /\ currentUser[1].role # "admin"
             THEN Fail(403, "Forbidden")
        ELSE IF Truthy(body, "name") /\ ~validatePackageName(body["name"])
             THEN Fail(400, "Invalid package name")
        ELSE IF Truthy(body, "name") /\ body["name"] # pkg[1].name
             THEN Next_("u_getPackage")
        ELSE UpdateLinkChecks(body)

\* The arguments of database.updatePackage that the body defines.
\* A handler that hands the name and the description of the body to
\* DB.updatePackage, and no other field.
UpdateBodyArgs_noVersion(body) ==
    LET keys == {"name", "description"} \cap DOMAIN body
    IN  [k \in keys |-> body[k]]

UpdateBodyArgs(body) ==
    LET keys == {"name", "description", "version", "kofiUrl", "longDescription",
                 "youtubeUrl", "discordUrl"} \cap DOMAIN body
    IN  [k \in keys |-> body[k]] @@
        (IF "category" \in DOMAIN body /\ ~Given(body, "category")
         THEN "categoryId" :> Null ELSE <<>>)

UpdateStart(p, r) ==
    /\ pc[p] = "idle"
    /\ call' = [call EXCEPT ![p] =
                   [op |-> "update", actor |-> r.actor, body |-> r.body,
                    packageId |-> r.id,
                    packageData |-> SelectPackageById(r.id),
                    args |-> UpdateBodyArgs(r.body),
                    current |-> Null, saved |-> Null]]
    /\ Proceed(p, UpdateChecks(r))
    /\ UNCHANGED <<catalogVars, storeVars, now>>

UpdateGetPackage(p) ==
    /\ pc[p] = "u_getPackage"
    /\ Proceed(p, IF getPackage(call[p].body["name"]) # Null
                  THEN Fail(409, "Package name already exists")
                  ELSE UpdateLinkChecks(call[p].body))
    /\ UNCHANGED <<catalogVars, storeVars, now, call>>

UpdateGetTag(p) ==
    /\ pc[p] = "u_getTag"
    /\ LET categoryRecord == getTagBySlug(CategorySlug(call[p].body["category"][1]))
       IN  IF categoryRecord = Null
           THEN Respond(p, 400, "Category not found", Null) /\ UNCHANGED call
           ELSE /\ Proceed(p, UpdateIconStage(call[p].body))
                /\ call' = [call EXCEPT ![p].args =
                               @ @@ ("categoryId" :> Some(categoryRecord[1].id))]
    /\ UNCHANGED <<catalogVars, storeVars, now>>

\* deleteIcon of the handler, then the checks of saveIcon.
UpdateIconDelete(p) ==
    /\ pc[p] = "u_iconDelete"
    /\ iconFiles' = deleteIcon(iconFiles, call[p].packageId)
    /\ IF saveIconAccepts(call[p].body["iconBase64"])
       THEN Goto(p, "u_saveIconDelete")
       ELSE Respond(p, 500, "Failed to update icon", Null)
    /\ UNCHANGED <<catalogVars, addonDirs, addonFiles, now, call>>

\* saveIcon: its deleteIcon.
UpdateSaveIconDelete(p) ==
    /\ pc[p] = "u_saveIconDelete"
    /\ iconFiles' = deleteIcon(iconFiles, call[p].packageId)
    /\ Goto(p, "u_iconWrite")
    /\ UNCHANGED <<catalogVars, addonDirs, addonFiles, now, call>>

\* saveIcon: its writeFile, then the checks of the archive.
UpdateIconWrite(p) ==
    /\ pc[p] = "u_iconWrite"
    /\ \E fault \in FsFaults :
         LET w == saveIconWrite(iconFiles, call[p].packageId, call[p].body["iconBase64"], fault)
         IN  /\ iconFiles' = w.files
             /\ IF w.threw
                THEN Respond(p, 500, "Failed to update icon", Null) /\ UNCHANGED call
                ELSE /\ Proceed(p, UpdateFileStage(call[p].body))
                     /\ call' = [call EXCEPT ![p].args = @ @@ ("iconUrl" :> w.iconUrl)]
    /\ UNCHANGED <<catalogVars, addonDirs, addonFiles, now>>

\* deleteAddon(packageId, currentName).
UpdateDeleteAddon(p) ==
    /\ pc[p] = "u_deleteAddon"
    /\ LET d == deleteAddon(addonDirs, addonFiles, call[p].packageId,
                            call[p].packageData[1].name)
       IN  addonDirs' = d.dirs /\ addonFiles' = d.files
    /\ Goto(p, "u_saveAddon")
    /\ UNCHANGED <<catalogVars, iconFiles, now, call>>

\* name || currentName
UpdatedName(c) ==
    IF Truthy(c.body, "name") THEN c.body["name"] ELSE c.packageData[1].name

\* saveAddon(packageId, addonName, fileBuffer).
UpdateSaveAddon(p) ==
    /\ pc[p] = "u_saveAddon"
    /\ \E fault \in FsFaults :
         LET sv == saveAddon(addonDirs, addonFiles, call[p].packageId,
                             UpdatedName(call[p]), call[p].body["fileBase64"], now, fault)
         IN  /\ addonDirs' = sv.dirs
             /\ addonFiles' = sv.files
             /\ IF sv.threw
                THEN Respond(p, 500, "Failed to update addon file", Null) /\ UNCHANGED call
                ELSE /\ Goto(p, "u_dbSelect")
                     /\ call' = [call EXCEPT ![p].saved =
                                    Some([filePath |-> sv.filePath, fileHash |-> sv.fileHash])]
    /\ UNCHANGED <<catalogVars, iconFiles, now>>

\* database.updatePackage: its SELECT.
UpdateDbSelect(p) ==
    /\ pc[p] = "u_dbSelect"
    /\ LET currentPkg == SelectPackageById(call[p].packageId)
       IN  /\ call' = [call EXCEPT ![p].current = currentPkg]
           /\ Goto(p, IF currentPkg = Null THEN "u_fetch" ELSE "u_dbUpdate")
    /\ UNCHANGED <<catalogVars, storeVars, now>>

\* ... and its UPDATE; a constraint error goes to the outer catch.
UpdateDbUpdate(p) ==
    /\ pc[p] = "u_dbUpdate"
    /\ LET up == DB_updatePackage(packages, call[p].packageId, call[p].current[1],
                                  call[p].args)
       IN  /\ packages' = up.rows
           /\ IF up.threw THEN Respond(p, 500, "Failed to update package", Null)
              ELSE Goto(p, "u_fetch")
    /\ UNCHANGED <<pkgSeq, tags, tagSeq, users, download_history, histSeq, foreign_keys,
                   storeVars, now, call>>

UpdateFetch(p) ==
    /\ pc[p] = "u_fetch"
    /\ Respond(p, 200, "", getFullPackageData(UpdatedName(call[p])))
    /\ UNCHANGED <<catalogVars, storeVars, now, call>>

---------------------------------------------------------------------------
(* DELETE /packages/:id *)

\* A DELETE handler without the ownership check.
DeleteChecks_noOwnership(r) ==
    LET pkg == SelectPackageById(r.id)
        currentUser == getUserById(r.actor)
    IN  IF NoToken(r) THEN Fail(401, "Unauthorized")
        ELSE IF pkg = Null THEN Fail(404, "Package not found")
        ELSE IF currentUser = Null THEN Fail(401, "Unauthorized: User not found")
        ELSE Next_("d_deleteAddon")

DeleteChecks(r) ==
    LET pkg == SelectPackageById(r.id)
        currentUser == getUserById(r.actor)
    IN  IF NoToken(r) THEN Fail(401, "Unauthorized")
        ELSE IF pkg = Null THEN Fail(404, "Package not found")
        ELSE IF currentUser = Null THEN Fail(401, "Unauthorized: User not found")
        ELSE IF pkg[1].author_id # r.actor /\ currentUser[1].role # "admin"
             THEN Fail(403, "Forbidden")
        ELSE Next_("d_deleteAddon")

DeleteStart(p, r) ==
    /\ pc[p] = "idle"
    /\ call' = [call EXCEPT ![p] =
                   [op |-> "delete", actor |-> r.actor, packageId |-> r.id,
                    packageData |-> SelectPackageById(r.id)]]
    /\ Proceed(p, DeleteChecks(r))
    /\ UNCHANGED <<catalogVars, storeVars, now>>

\* A delete that removes the icon with the archives.
DeleteDeleteAddon_andIcon(p) ==
    /\ pc[p] = "d_deleteAddon"
    /\ LET d == deleteAddon(addonDirs, addonFiles, call[p].packageId,
                            call[p].packageData[1].name)
       IN  addonDirs' = d.dirs /\ addonFiles' = d.files
    /\ iconFiles' = deleteIcon(iconFiles, call[p].packageId)
    /\ Goto(p, "d_deleteRow")
    /\ UNCHANGED <<catalogVars, now, call>>

DeleteDeleteAddon(p) ==
    /\ pc[p] = "d_deleteAddon"
    /\ LET d == deleteAddon(addonDirs, addonFiles, call[p].packageId,
                            call[p].packageData[1].name)
       IN  addonDirs' = d.dirs /\ addonFiles' = d.files
    /\ Goto(p, "d_deleteRow")
    /\ UNCHANGED <<catalogVars, iconFiles, now, call>>

DeleteDeleteRow(p) ==
    /\ pc[p] = "d_deleteRow"
    /\ packages' = DB_deletePackage(packages, call[p].packageId)
    /\ download_history' = CascadeHistory(download_history, call[p].packageId)
    /\ Respond(p, 200, "", Null)
    /\ UNCHANGED <<pkgSeq, tags, tagSeq, users, histSeq, foreign_keys, storeVars, now, call>>

---------------------------------------------------------------------------
(* GET /packages/:name/download *)

\* new Date().toISOString().split('T')[0]
Today(t) == t \div TicksPerDay
Days == {Today(t) : t \in Times}

\* An INSERT INTO download_history without its ON CONFLICT clause, on a table
\* without UNIQUE(package_id, date).
DB_upsertHistory_insertOnly(history, seq, packageId, today) ==
    [rows |-> history \cup {[id |-> seq + 1, package_id |-> packageId,
                             date |-> today, download_count |-> 1]},
     seq |-> seq + 1]

\* DB.incrementDownloads, its INSERT ... ON CONFLICT(package_id, date) DO
\* UPDATE SET download_count = download_count + 1.
DB_upsertHistory(history, seq, packageId, today) ==
    IF \E h \in history : h.package_id = packageId /\ h.date = today
    THEN [rows |-> {IF h.package_id = packageId /\ h.date = today
                    THEN [h EXCEPT !.download_count = @ + 1] ELSE h : h \in history},
          seq |-> seq]
    ELSE [rows |-> history \cup {[id |-> seq + 1, package_id |-> packageId,
                                  date |-> today, download_count |-> 1]},
          seq |-> seq + 1]

\* An incrementDownloads without its second statement.
DB_incrementAggregate_none(rows, packageId) == rows

\* DB.incrementDownloads, its UPDATE packages SET downloads = downloads + 1.
DB_incrementAggregate(rows, packageId) ==
    {IF r.id = packageId THEN [r EXCEPT !.downloads = @ + 1] ELSE r : r \in rows}

\* The calls of recordDownload that are past their first write and before
\* their second.
BetweenWrites == {p \in Procs : pc[p] = "g_aggregate"}

\* The downloads recorded or about to be.
RECURSIVE SumOver(_, _)
SumOver(f, S) ==
    IF S = {} THEN 0
    ELSE LET x == CHOOSE y \in S : TRUE IN f[x] + SumOver(f, S \ {x})

DownloadStart(p, name) ==
    /\ pc[p] = "idle"
    /\ SumOver(recorded, DOMAIN recorded)
         + Cardinality({q \in Procs : pc[q] \in {"g_latest", "g_upsert"}}) < MaxDownloads
    /\ LET pkg == getPackage(name)
       IN  /\ call' = [call EXCEPT ![p] =
                          [op |-> "download", name |-> name, pkg |-> pkg, filePath |-> Null]]
           /\ Proceed(p, IF name = EmptyString THEN Fail(400, "Package name is required")
                         ELSE IF pkg = Null THEN Fail(404, "Package not found")
                         ELSE Next_("g_latest"))
    /\ UNCHANGED <<catalogVars, storeVars, now>>

DownloadLatest(p) ==
    /\ pc[p] = "g_latest"
    /\ LET filePath == getLatestAddonFile(addonDirs, addonFiles, call[p].pkg[1].id,
                                          call[p].name)
       IN  IF filePath = Null
           THEN Respond(p, 404, "Package file not found", Null) /\ UNCHANGED call
           ELSE Goto(p, "g_upsert") /\ call' = [call EXCEPT ![p].filePath = filePath]
    /\ UNCHANGED <<catalogVars, storeVars, now>>

\* incrementDownloads: the first write.  With foreign keys enforced the
\* INSERT for a package that is gone raises.
DownloadUpsert(p) ==
    /\ pc[p] = "g_upsert"
    /\ IF foreign_keys /\ SelectPackageById(call[p].pkg[1].id) = Null
       THEN /\ Respond(p, 500, "Failed to download package", Null)
            /\ UNCHANGED <<download_history, histSeq>>
       ELSE LET up == DB_upsertHistory(download_history, histSeq, call[p].pkg[1].id,
                                       Today(now))
            IN  /\ download_history' = up.rows
                /\ histSeq' = up.seq
                /\ Goto(p, "g_aggregate")
    /\ UNCHANGED <<packages, pkgSeq, tags, tagSeq, users, foreign_keys, storeVars, now, call>>

\* incrementDownloads: the second write, then getAddonStream.
DownloadAggregate(p) ==
    /\ pc[p] = "g_aggregate"
    /\ packages' = DB_incrementAggregate(packages, call[p].pkg[1].id)
    /\ LET stream == getAddonStream(addonFiles, call[p].filePath[1])
       IN  IF stream = Null THEN Respond(p, 500, "Failed to read package file", Null)
           ELSE Respond(p, 200, "", stream)
    /\ UNCHANGED <<pkgSeq, tags, tagSeq, users, download_history, histSeq, foreign_keys,
                   storeVars, now, call>>

---------------------------------------------------------------------------
(* The environment *)

\* The response has been delivered; the process serves the next request.
Finish(p) ==
    /\ pc[p] = "done"
    /\ pc' = [pc EXCEPT ![p] = "idle"]
    /\ call' = [call EXCEPT ![p] = Idle]
    /\ result' = [result EXCEPT ![p] = NoResult]
    /\ UNCHANGED <<catalogVars, storeVars, now>>

\* Time passes.
Tick ==
    /\ now < MaxTime
    /\ now' = now + 1
    /\ UNCHANGED <<catalogVars, storeVars, pc, call, result, wrote, recorded, calls,
                   schema, package_tags, boot, rateLimitStore, loginRateLimitStore,
                   admitted>>

\* A step of process p, with the history variables.
Step(p, A) ==
    /\ A
    /\ calls' = IF pc[p] = "idle" /\ call'[p].op \in {"create", "update", "delete"}
                THEN calls + 1 ELSE calls
    /\ calls' <= MaxCalls
    /\ wrote' = [wrote EXCEPT ![p] =
                    IF pc[p] \in {"idle", "done"} THEN FALSE
                    ELSE @ \/ <<packages, addonDirs, addonFiles, iconFiles>>'
                                # <<packages, addonDirs, addonFiles, iconFiles>>]
    /\ recorded' = IF pc[p] = "g_upsert" /\ pc'[p] = "g_aggregate"
                   THEN [recorded EXCEPT ![<<call[p].pkg[1].id, Today(now)>>] = @ + 1]
                   ELSE recorded
    /\ UNCHANGED <<schema, package_tags, boot>>
    /\ UNCHANGED <<rateLimitStore, loginRateLimitStore, admitted>>

---------------------------------------------------------------------------
(* The requests *)

NameA == <<"a">>
NameB == <<"b">>

\* Archives: two ZIP files, and the text "not a zip".
Archive == Buffer(5, <<80, 75, 3, 4, 1>>)
Archive2 == Buffer(6, <<80, 75, 3, 4, 2>>)
NotZip == Buffer(9, <<110, 111, 116, 32>>)
\* Icons: a PNG, and bytes of no known image type.
Png == Buffer(8, <<137, 80, 78, 71>>)
NoImage == Buffer(4, <<0, 1, 2, 3>>)

\* Users 1 and 2 are developers, user 3 is an admin.
Developer1 == 1
Developer2 == 2
Admin == 3

Request(actor, body) == [actor |-> actor, body |-> body]
RequestOn(actor, id, body) == [actor |-> actor, id |-> id, body |-> body]

CreateRequests ==
    { Request(Developer1, [name |-> NameA, fileBase64 |-> Archive, iconBase64 |-> Png]),
      Request(Developer2, [name |-> NameB, fileBase64 |-> Archive]),
      Request(Developer1, [name |-> NameA, fileBase64 |-> NotZip]) }

UpdateRequests ==
    { RequestOn(Developer1, 1, [name |-> NameB]),
      RequestOn(Developer1, 1, [fileBase64 |-> Archive2]),
      RequestOn(Developer1, 1, [iconBase64 |-> Png, fileBase64 |-> NotZip]),
      RequestOn(Developer1, 1, [iconBase64 |-> NoImage]) }

DeleteRequests ==
    { [actor |-> Developer2, id |-> 1],
      [actor |-> Admin, id |-> 1] }

---------------------------------------------------------------------------
(* The catalog and the content store under create, update and delete *)

\* After initDB and initializeStorage: no package, the seeded category, the
\* registered users.  initDB issues no PRAGMA foreign_keys, and SQLite leaves
\* foreign keys unenforced unless asked.
Init ==
    /\ packages = {}
    /\ pkgSeq = 0
    /\ tags = {[id |-> 1, name |-> <<"M", "a", "p", "s">>, slug |-> <<"m", "a", "p", "s">>]}
    /\ tagSeq = 1
    /\ users = {[id |-> Developer1, role |-> "developer"],
                [id |-> Developer2, role |-> "developer"],
                [id |-> Admin, role |-> "admin"]}
    /\ download_history = {}
    /\ histSeq = 0
    /\ foreign_keys = FALSE
    /\ schema = CurrentSchema
    /\ package_tags = {}
    /\ boot = Started
    /\ rateLimitStore = <<>>
    /\ loginRateLimitStore = <<>>
    /\ admitted = <<>>
    /\ addonDirs = {}
    /\ addonFiles = {}
    /\ iconFiles = {}
    /\ now = 0
    /\ pc = [p \in Procs |-> "idle"]
    /\ call = [p \in Procs |-> Idle]
    /\ result = [p \in Procs |-> NoResult]
    /\ wrote = [p \in Procs |-> FALSE]
    /\ recorded = [k \in Ids \X Days |-> 0]
    /\ calls = 0

Next ==
    \/ \E p \in Procs : \E r \in CreateRequests : Step(p, CreateStart(p, r))
    \/ \E p \in Procs : Step(p, CreateGetPackage(p))
    \/ \E p \in Procs : Step(p, CreateInsert(p))
    \/ \E p \in Procs : Step(p, CreateSaveAddon(p))
    \/ \E p \in Procs : Step(p, CreateIconDelete(p))
    \/ \E p \in Procs : Step(p, CreateIconWrite(p))
    \/ \E p \in Procs : Step(p, CreateDbSelect(p))
    \/ \E p \in Procs : Step(p, CreateDbUpdate(p))
    \/ \E p \in Procs : Step(p, CreateCleanupRow(p))
    \/ \E p \in Procs : Step(p, CreateCleanupIcon(p))
    \/ \E p \in Procs : Step(p, CreateFetch(p))
    \/ \E p \in Procs : \E r \in UpdateRequests : Step(p, UpdateStart(p, r))
    \/ \E p \in Procs : Step(p, UpdateGetPackage(p))
    \/ \E p \in Procs : Step(p, UpdateIconDelete(p))
    \/ \E p \in Procs : Step(p, UpdateSaveIconDelete(p))
    \/ \E p \in Procs : Step(p, UpdateIconWrite(p))
    \/ \E p \in Procs : Step(p, UpdateDeleteAddon(p))
    \/ \E p \in Procs : Step(p, UpdateSaveAddon(p))
    \/ \E p \in Procs : Step(p, UpdateDbSelect(p))
    \/ \E p \in Procs : Step(p, UpdateDbUpdate(p))
    \/ \E p \in Procs : Step(p, UpdateFetch(p))
    \/ \E p \in Procs : \E r \in DeleteRequests : Step(p, DeleteStart(p, r))
    \/ \E p \in Procs : Step(p, DeleteDeleteAddon(p))
    \/ \E p \in Procs : Step(p, DeleteDeleteRow(p))
    \/ \E p \in Procs : Step(p, Finish(p))

Spec == Init /\ [][Next]_vars

---------------------------------------------------------------------------
(* Properties of create, update and delete *)

IconsOf(files, packageId) == {f \in files : f.path[2] = packageId}
RowsOfId(rows, packageId) == {r \in rows : r.id = packageId}
RowsOfName(rows, name) == {r \in rows : r.name = name}

\* The step by which a create returns after its saveAddon raised: the row
\* was inserted, nothing was saved.
ReturnsAfterSaveFailed(p) ==
    /\ pc[p] = "c_cleanupIcon"
    /\ pc'[p] = "done"
    /\ call[p].saved = Null

\* C1, as stated: when a create returns after the archive could not be
\* persisted, the catalog has no row of that package id and no row of that
\* name, and no icon file of that id is on disk.
C1_NoRowOfIdOrName ==
    [][\A p \in Procs :
         ReturnsAfterSaveFailed(p) =>
            /\ RowsOfId(packages', call[p].packageId) = {}
            /\ RowsOfName(packages', call[p].name) = {}
            /\ IconsOf(iconFiles', call[p].packageId) = {}]_vars

\* C1, amended: when a create returns after the archive could not be
\* persisted, the catalog has no row of that package id, no icon file of that
\* id is on disk, and a row of that name, if there is one, is the row another
\* call inserted under its own id.
C1_NoRowOfId ==
    [][\A p \in Procs :
         ReturnsAfterSaveFailed(p) =>
            /\ RowsOfId(packages', call[p].packageId) = {}
            /\ \A r \in RowsOfName(packages', call[p].name) :
                  r.id # call[p].packageId
            /\ IconsOf(iconFiles', call[p].packageId) = {}]_vars

\* A create has returned its error after the archive could not be persisted.
C1_Witness ==
    \E p \in Procs :
        /\ pc[p] = "done"
        /\ call[p].op = "create"
        /\ call[p].packageId # 0
        /\ call[p].saved = Null
        /\ result[p].status = 500

\* C2: a create or an update that returns a validation error (status 400)
\* has changed no catalog row and no stored archive or icon file.
C2_ValidationBeforeMutation ==
    \A p \in Procs :
        (/\ pc[p] = "done"
         /\ call[p].op \in {"create", "update"}
         /\ result[p].status = 400) => ~wrote[p]

\* No create, update or delete is in progress.
Quiescent ==
    \A p \in Procs : call[p].op \in {"create", "update", "delete"} => pc[p] = "done"

\* C3: when no create, update or delete is in progress, every row has a
\* backing artifact: getLatestAddonFile(row.id, row.name) is an existing file.
C3_BackingArtifact ==
    Quiescent =>
        \A r \in packages :
            LET latest == getLatestAddonFile(addonDirs, addonFiles, r.id, r.name)
            IN  latest # Null /\ getAddonStream(addonFiles, latest[1]) # Null

\* C4: after a successful create the row's file_path and file_hash are the
\* path and the hash that saveAddon returned to that call.
C4_RowReferencesArchive ==
    \A p \in Procs :
        (/\ pc[p] = "done"
         /\ call[p].op = "create"
         /\ result[p].status = 201) =>
            \A r \in RowsOfId(packages, call[p].packageId) :
                /\ r.file_path = call[p].saved[1].filePath
                /\ r.file_hash = call[p].saved[1].fileHash

\* The request that starts at process p comes, with a valid token, from a
\* known user who is neither the author of the package nor an admin.
NotOwnerNorAdmin(p) ==
    /\ pc[p] = "idle"
    /\ pc'[p] # "idle"
    /\ call'[p].op \in {"update", "delete"}
    /\ call'[p].actor # 0
    /\ \E r \in packages : r.id = call'[p].packageId /\ r.author_id # call'[p].actor
    /\ \E u \in users : u.id = call'[p].actor /\ u.role # "admin"

\* C6: an update or a delete by an actor who is neither the author nor an
\* admin returns Forbidden (403) and leaves the rows, the archive files and
\* the icon files unchanged.
C6_Forbidden ==
    [][\A p \in Procs :
         NotOwnerNorAdmin(p) =>
            /\ pc'[p] = "done"
            /\ result'[p].status = 403
            /\ <<packages, addonDirs, addonFiles, iconFiles>>'
                 = <<packages, addonDirs, addonFiles, iconFiles>>]_vars

\* A delete by a developer who is not the author was answered.
C6_Witness ==
    \E p \in Procs :
        /\ pc[p] = "done"
        /\ call[p].op = "delete"
        /\ call[p].actor = Developer2
        /\ result[p].status = 403
        /\ \E r \in packages : r.id = call[p].packageId /\ r.author_id = Developer1

\* C7: no two rows of table packages have the same name.
C7_UniqueName ==
    \A r1, r2 \in packages : r1.name = r2.name => r1 = r2

\* Two calls raced for one name: the loser passed its look-up of the name and
\* its INSERT or UPDATE was refused.
C7_Witness ==
    \E p \in Procs :
        /\ pc[p] = "done"
        /\ result[p].status = 500
        /\ \/ call[p].op = "create" /\ call[p].packageId = 0
           \/ call[p].op = "update" /\ result[p].error = "Failed to update package"
        /\ packages # {}

\* C8: of two creates of one name that interleave, the one whose INSERT
\* finds the name taken fails with Conflict (409).
C8_LoserGetsConflict ==
    [][\A p \in Procs :
         (pc[p] = "c_insert" /\ pc'[p] = "done") => result'[p].status = 409]_vars

---------------------------------------------------------------------------
(* The metadata of a package under updates *)

KofiUrl == Url("https", "ko-fi.com/", <<"u">>)
YoutubeUrl == Url("https", "youtu.be/", <<"v">>)
DiscordUrl == Url("https", "discord.gg/", <<"i">>)
Maps == <<"M", "a", "p", "s">>

\* A create that sets every optional field.
MetaCreateRequests ==
    { Request(Developer1, [name |-> NameA, fileBase64 |-> Archive,
                           kofiUrl |-> KofiUrl, longDescription |-> <<"l">>,
                           youtubeUrl |-> YoutubeUrl, discordUrl |-> DiscordUrl,
                           category |-> Maps]) }

\* Updates of the metadata: no key of a nullable field, every such key null,
\* one key null, keys with values.
MetaUpdateRequests ==
    { RequestOn(Developer1, 1, <<>>),
      RequestOn(Developer1, 1, [description |-> <<"d">>]),
      RequestOn(Developer1, 1, [kofiUrl |-> Null, longDescription |-> Null,
                                youtubeUrl |-> Null, discordUrl |-> Null,
                                category |-> Null]),
      RequestOn(Developer1, 1, [kofiUrl |-> Null]),
      RequestOn(Developer1, 1, [longDescription |-> Some(<<"m">>),
                                category |-> Some(Maps)]) }

NextMeta ==
    \/ \E p \in Procs : \E r \in MetaCreateRequests : Step(p, CreateStart(p, r))
    \/ \E p \in Procs : Step(p, CreateGetPackage(p))
    \/ \E p \in Procs : Step(p, CreateGetTag(p))
    \/ \E p \in Procs : Step(p, CreateInsert(p))
    \/ \E p \in Procs : Step(p, CreateSaveAddon(p))
    \/ \E p \in Procs : Step(p, CreateCleanupRow(p))
    \/ \E p \in Procs : Step(p, CreateCleanupIcon(p))
    \/ \E p \in Procs : Step(p, CreateFetch(p))
    \/ \E p \in Procs : \E r \in MetaUpdateRequests : Step(p, UpdateStart(p, r))
    \/ \E p \in Procs : Step(p, UpdateGetTag(p))
    \/ \E p \in Procs : Step(p, UpdateDbSelect(p))
    \/ \E p \in Procs : Step(p, UpdateDbUpdate(p))
    \/ \E p \in Procs : Step(p, UpdateFetch(p))
    \/ \E p \in Procs : Step(p, Finish(p))

SpecMeta == Init /\ [][NextMeta]_vars

\* The nullable optional fields: the key of the request and the column.
NullableFields ==
    { <<"kofiUrl", "kofi_url">>, <<"longDescription", "long_description">>,
      <<"youtubeUrl", "youtube_url">>, <<"discordUrl", "discord_url">>,
      <<"category", "category_id">> }

\* The row of the package that the call of process p is about.
RowOf(rows, p) == CHOOSE r \in rows : r.id = call[p].packageId

\* The UPDATE of the update call of process p is this step.
UpdateWrites(p) ==
    /\ pc[p] = "u_dbUpdate"
    /\ pc'[p] = "u_fetch"
    /\ RowsOfId(packages, call[p].packageId) # {}

\* C5, amended: the UPDATE of an update call leaves a nullable optional field as it is
\* stored when its key is absent from the request (no other call having
\* written the row since this call read it), and stores null when the key is
\* present and null.
C5_AbsentKeepsNullClears ==
    [][\A p \in Procs :
         UpdateWrites(p) =>
            \A f \in NullableFields :
               /\ (f[1] \notin DOMAIN call[p].body
                      /\ call[p].current[1] = RowOf(packages, p))
                    => RowOf(packages', p)[f[2]] = RowOf(packages, p)[f[2]]
               /\ (f[1] \in DOMAIN call[p].body /\ call[p].body[f[1]] = Null)
                    => RowOf(packages', p)[f[2]] = Null]_vars

\* C5, as stated: the UPDATE of an update call leaves a nullable optional
\* field as it is stored when its key is absent from the request, and stores
\* null when the key is present and null.
C5_AsStated ==
    [][\A p \in Procs :
         UpdateWrites(p) =>
            \A f \in NullableFields :
               /\ f[1] \notin DOMAIN call[p].body
                    => RowOf(packages', p)[f[2]] = RowOf(packages, p)[f[2]]
               /\ (f[1] \in DOMAIN call[p].body /\ call[p].body[f[1]] = Null)
                    => RowOf(packages', p)[f[2]] = Null]_vars

\* An update without the key kofiUrl has returned and the link is still
\* stored; and an update with kofiUrl null has returned and no link is stored.
C5_Witness ==
    \E p, q \in Procs :
        /\ pc[p] = "done" /\ call[p].op = "update" /\ result[p].status = 200
        /\ "kofiUrl" \notin DOMAIN call[p].body
        /\ result[p].data # Null /\ result[p].data[1].pkg.kofi_url = Some(KofiUrl)
        /\ pc[q] = "done" /\ call[q].op = "update" /\ result[q].status = 200
        /\ "kofiUrl" \in DOMAIN call[q].body /\ call[q].body["kofiUrl"] = Null

---------------------------------------------------------------------------
(* The download counters *)

DlCreateRequests == { Request(Developer1, [name |-> NameA, fileBase64 |-> Archive]) }
DlUpdateRequests == { RequestOn(Developer1, 1, [name |-> NameB]) }
DlDeleteRequests == { [actor |-> Admin, id |-> 1] }
DlDownloadRequests == { NameA, NameB }

\* As Init, on a connection that enforces foreign keys or one that does not.
InitDl ==
    /\ packages = {}
    /\ pkgSeq = 0
    /\ tags = {[id |-> 1, name |-> <<"M", "a", "p", "s">>, slug |-> <<"m", "a", "p", "s">>]}
    /\ tagSeq = 1
    /\ users = {[id |-> Developer1, role |-> "developer"],
                [id |-> Developer2, role |-> "developer"],
                [id |-> Admin, role |-> "admin"]}
    /\ download_history = {}
    /\ histSeq = 0
    /\ foreign_keys \in BOOLEAN
    /\ schema = CurrentSchema
    /\ package_tags = {}
    /\ boot = Started
    /\ rateLimitStore = <<>>
    /\ loginRateLimitStore = <<>>
    /\ admitted = <<>>
    /\ addonDirs = {}
    /\ addonFiles = {}
    /\ iconFiles = {}
    /\ now = 0
    /\ pc = [p \in Procs |-> "idle"]
    /\ call = [p \in Procs |-> Idle]
    /\ result = [p \in Procs |-> NoResult]
    /\ wrote = [p \in Procs |-> FALSE]
    /\ recorded = [k \in Ids \X Days |-> 0]
    /\ calls = 0

NextDl ==
    \/ \E p \in Procs : \E r \in DlCreateRequests : Step(p, CreateStart(p, r))
    \/ \E p \in Procs : Step(p, CreateGetPackage(p))
    \/ \E p \in Procs : Step(p, CreateInsert(p))
    \/ \E p \in Procs : Step(p, CreateSaveAddon(p))
    \/ \E p \in Procs : Step(p, CreateCleanupRow(p))
    \/ \E p \in Procs : Step(p, CreateCleanupIcon(p))
    \/ \E p \in Procs : Step(p, CreateFetch(p))
    \/ \E p \in Procs : \E r \in DlUpdateRequests : Step(p, UpdateStart(p, r))
    \/ \E p \in Procs : Step(p, UpdateGetPackage(p))
    \/ \E p \in Procs : Step(p, UpdateDbSelect(p))
    \/ \E p \in Procs : Step(p, UpdateDbUpdate(p))
    \/ \E p \in Procs : Step(p, UpdateFetch(p))
    \/ \E p \in Procs : \E r \in DlDeleteRequests : Step(p, DeleteStart(p, r))
    \/ \E p \in Procs : Step(p, DeleteDeleteAddon(p))
    \/ \E p \in Procs : Step(p, DeleteDeleteRow(p))
    \/ \E p \in Procs : \E name \in DlDownloadRequests : Step(p, DownloadStart(p, name))
    \/ \E p \in Procs : Step(p, DownloadLatest(p))
    \/ \E p \in Procs : Step(p, DownloadUpsert(p))
    \/ \E p \in Procs : Step(p, DownloadAggregate(p))
    \/ \E p \in Procs : Step(p, Finish(p))
    \/ Tick

SpecDl == InitDl /\ [][NextDl]_vars

HistoryOf(packageId) == {h \in download_history : h.package_id = packageId}

RECURSIVE SumCounts(_)
SumCounts(rows) ==
    IF rows = {} THEN 0
    ELSE LET h == CHOOSE x \in rows : TRUE
         IN  h.download_count + SumCounts(rows \ {h})

\* C9: the n recordDownload calls for package p that made their first write
\* on day d leave exactly one download_history row for (p, d), with count n;
\* and downloads of p is the number of recordDownload calls for p that made
\* both writes.
C9_OneRowCountN ==
    \A r \in packages :
        /\ \A d \in Days :
              LET rows == {h \in HistoryOf(r.id) : h.date = d}
                  n == recorded[<<r.id, d>>]
              IN  IF n = 0 THEN rows = {}
                  ELSE Cardinality(rows) = 1 /\ \A h \in rows : h.download_count = n
        /\ r.downloads =
              SumOver(recorded, {r.id} \X Days)
                - Cardinality({p \in BetweenWrites : call[p].pkg[1].id = r.id})

\* Two recordDownload calls for one package interleave on one day: both have
\* made their first write and neither its second.
C9_Witness ==
    /\ BetweenWrites = Procs
    /\ \E r \in packages : \E d \in Days : recorded[<<r.id, d>>] = NumProcs

\* C10: when no recordDownload call is between its two writes, downloads of
\* every row is the sum of the counts of its download_history rows.
C10_AggregateIsSum ==
    BetweenWrites = {} =>
        \A r \in packages : r.downloads = SumCounts(HistoryOf(r.id))

\* A package was downloaded on two days and then renamed.
C10_Witness ==
    /\ BetweenWrites = {}
    /\ \E r \in packages :
          /\ r.name = NameB
          /\ r.downloads >= 2
          /\ Cardinality(HistoryOf(r.id)) = 2

---------------------------------------------------------------------------
(* Downloads beside updates and deletes *)

\* C11: a download request that has made the two counter writes returns the
\* archive stream (200); a request answered NotFound or with an error has
\* written neither counter.
C11_CountsOnlyOnSuccess ==
    [][\A p \in Procs :
         (pc[p] = "g_aggregate" /\ pc'[p] = "done") => result'[p].status = 200]_vars

---------------------------------------------------------------------------
(* The daily series: DB.getDailyDownloads *)

\* WITH RECURSIVE dates(date): startDate, then date + 1 day while date < today.
RECURSIVE DateSeries(_, _)
DateSeries(date, today) ==
    IF date < today THEN {date} \cup DateSeries(date + 1, today) ELSE {date}

\* The rows that one date of the series yields in the LEFT JOIN: one for
\* each download_history row of (packageId, date), or one with count 0.
RECURSIVE JoinRows(_, _)
JoinRows(date, matching) ==
    IF matching = {} THEN <<>>
    ELSE LET h == CHOOSE x \in matching : TRUE
         IN  <<[date |-> date, count |-> h.download_count]>>
               \o JoinRows(date, matching \ {h})

\* An inner join: a date without a download_history row yields nothing.
LeftJoin_inner(history, packageId, date) ==
    JoinRows(date, {h \in history : h.date = date /\ h.package_id = packageId})

LeftJoin(history, packageId, date) ==
    LET matching == {h \in history : h.date = date /\ h.package_id = packageId}
    IN  IF matching = {} THEN <<[date |-> date, count |-> 0]>>
        ELSE JoinRows(date, matching)

\* ORDER BY dates.date DESC
RECURSIVE OrderByDateDesc(_, _, _)
OrderByDateDesc(history, packageId, dates) ==
    IF dates = {} THEN <<>>
    ELSE LET d == Max(dates)
         IN  LeftJoin(history, packageId, d)
               \o OrderByDateDesc(history, packageId, dates \ {d})

\* getDailyDownloads(packageId, days), its clock read as tToday for today and
\* as tStart for startDate.
getDailyDownloads(history, packageId, days, tToday, tStart) ==
    LET today == Today(tToday)
        startDate == Today(tStart - (days - 1) * TicksPerDay)
    IN  OrderByDateDesc(history, packageId, DateSeries(startDate, today))

StatsRequests == {[id |-> id, days |-> n] : id \in {1}, n \in 1..MaxDays}

\* A call of getDailyDownloads; its two clock reads are one instant.
DailyDownloads(p, r) ==
    /\ pc[p] = "idle"
    /\ call' = [call EXCEPT ![p] =
                   [op |-> "daily", packageId |-> r.id,
                    days |-> r.days, today |-> Today(now)]]
    /\ Respond(p, 200, "",
               Some(getDailyDownloads(download_history, r.id, r.days, now, now)))
    /\ UNCHANGED <<catalogVars, storeVars, now>>

StatsCreateRequests == { Request(Developer1, [name |-> NameA, fileBase64 |-> Archive]) }
StatsDownloadRequests == { NameA }

NextStats ==
    \/ \E p \in Procs : \E r \in StatsCreateRequests : Step(p, CreateStart(p, r))
    \/ \E p \in Procs : Step(p, CreateGetPackage(p))
    \/ \E p \in Procs : Step(p, CreateInsert(p))
    \/ \E p \in Procs : Step(p, CreateSaveAddon(p))
    \/ \E p \in Procs : Step(p, CreateCleanupRow(p))
    \/ \E p \in Procs : Step(p, CreateCleanupIcon(p))
    \/ \E p \in Procs : Step(p, CreateFetch(p))
    \/ \E p \in Procs : \E name \in StatsDownloadRequests : Step(p, DownloadStart(p, name))
    \/ \E p \in Procs : Step(p, DownloadLatest(p))
    \/ \E p \in Procs : Step(p, DownloadUpsert(p))
    \/ \E p \in Procs : Step(p, DownloadAggregate(p))
    \/ \E p \in Procs : \E r \in StatsRequests : Step(p, DailyDownloads(p, r))
    \/ \E p \in Procs : Step(p, Finish(p))
    \/ Tick

SpecStats == InitDl /\ [][NextStats]_vars

\* The count of download_history for (packageId, date), or 0.
CountOn(packageId, date) ==
    IF \E h \in download_history : h.package_id = packageId /\ h.date = date
    THEN (CHOOSE h \in download_history :
             h.package_id = packageId /\ h.date = date).download_count
    ELSE 0

\* A call of getDailyDownloads returns at this step.
DailyReturns(p) ==
    /\ pc[p] = "idle"
    /\ pc'[p] = "done"
    /\ call'[p].op = "daily"

---------------------------------------------------------------------------
(* Icons: creates and updates that carry an icon, and deletes *)

Gif == Buffer(6, <<71, 73, 70, 56>>)

\* A PNG of more than MAX_ICON_SIZE bytes.
BigPng == Buffer(MAX_ICON_SIZE + 1, <<137, 80, 78, 71>>)

\* Creates with an icon that saveIcon takes, with one of no known type and
\* with one that is too large.
IconCreateRequests ==
    { Request(Developer1, [name |-> NameA, fileBase64 |-> Archive, iconBase64 |-> Png]),
      Request(Developer2, [name |-> NameB, fileBase64 |-> Archive, iconBase64 |-> NoImage]),
      Request(Developer2, [name |-> NameB, fileBase64 |-> Archive, iconBase64 |-> BigPng]) }

\* Updates of the icon of package 1: another type, the same type.
IconUpdateRequests ==
    { RequestOn(Developer1, 1, [iconBase64 |-> Gif]),
      RequestOn(Developer1, 1, [iconBase64 |-> Png]) }

IconDeleteRequests == { RequestOn(Developer1, 1, <<>>) }

NextIcon ==
    \/ \E p \in Procs : \E r \in IconCreateRequests : Step(p, CreateStart(p, r))
    \/ \E p \in Procs : Step(p, CreateGetPackage(p))
    \/ \E p \in Procs : Step(p, CreateInsert(p))
    \/ \E p \in Procs : Step(p, CreateSaveAddon(p))
    \/ \E p \in Procs : Step(p, CreateIconDelete(p))
    \/ \E p \in Procs : Step(p, CreateIconWrite(p))
    \/ \E p \in Procs : Step(p, CreateDbSelect(p))
    \/ \E p \in Procs : Step(p, CreateDbUpdate(p))
    \/ \E p \in Procs : Step(p, CreateCleanupRow(p))
    \/ \E p \in Procs : Step(p, CreateCleanupIcon(p))
    \/ \E p \in Procs : Step(p, CreateFetch(p))
    \/ \E p \in Procs : \E r \in IconUpdateRequests : Step(p, UpdateStart(p, r))
    \/ \E p \in Procs : Step(p, UpdateIconDelete(p))
    \/ \E p \in Procs : Step(p, UpdateSaveIconDelete(p))
    \/ \E p \in Procs : Step(p, UpdateIconWrite(p))
    \/ \E p \in Procs : Step(p, UpdateDbSelect(p))
    \/ \E p \in Procs : Step(p, UpdateDbUpdate(p))
    \/ \E p \in Procs : Step(p, UpdateFetch(p))
    \/ \E p \in Procs : \E r \in IconDeleteRequests : Step(p, DeleteStart(p, r))
    \/ \E p \in Procs : Step(p, DeleteDeleteAddon(p))
    \/ \E p \in Procs : Step(p, DeleteDeleteRow(p))
    \/ \E p \in Procs : Step(p, Finish(p))

SpecIcon == Init /\ [][NextIcon]_vars

\* C13: for each package id there is at most one icon file {id}.{ext}.
C13_OneIconPerId ==
    \A id \in Ids : Cardinality(IconsOf(iconFiles, id)) <= 1

---------------------------------------------------------------------------
(* The Content Store on its own: calls of saveAddon, deleteAddon, saveIcon
   and deleteIcon *)

\* A call of the Content Store returns, or raises.
Return(p, data) == Respond(p, 0, "", data)
Raise(p) == Respond(p, 0, "threw", Null)

\* Process q is inside a saveAddon for the package directory, its timestamp
\* taken and its writeFile pending.
SavingTo(q, packageDir) ==
    /\ pc[q] = "s_write"
    /\ getAddonPath(call[q].packageId, call[q].packageName) = packageDir

\* saveAddon up to its writeFile: the check of the archive, mkdir of the
\* package directory, the timestamp.  alone: no other saveAddon for the
\* directory runs beside this call.
StoreSaveAddon(p, r, fault) ==
    /\ pc[p] = "idle"
    /\ LET packageDir == getAddonPath(r.id, r.name)
           c == [op |-> "saveAddon", packageId |-> r.id, packageName |-> r.name,
                 fileBuffer |-> r.bytes, timestamp |-> now,
                 alone |-> ~\E q \in Procs : SavingTo(q, packageDir)]
       IN  /\ call' = [q \in Procs |->
                          IF q = p THEN c
                          ELSE IF SavingTo(q, packageDir)
                               THEN [call[q] EXCEPT !.alone = FALSE]
                               ELSE call[q]]
           /\ IF ~validateMcaddonFile(r.bytes) \/ (fault = "mkdir" /\ packageDir \notin addonDirs)
              THEN Raise(p) /\ UNCHANGED addonDirs
              ELSE Goto(p, "s_write") /\ addonDirs' = addonDirs \cup {packageDir}
    /\ UNCHANGED <<catalogVars, addonFiles, iconFiles, now>>

\* The writeFile of saveAddon and its return.  The write raises when the
\* package directory is gone.
StoreSaveAddonWrite(p, fault) ==
    /\ pc[p] = "s_write"
    /\ LET c == call[p]
           s == saveAddon(addonDirs, addonFiles, c.packageId, c.packageName,
                          c.fileBuffer, c.timestamp, fault)
       IN  IF getAddonPath(c.packageId, c.packageName) \notin addonDirs
           THEN Raise(p) /\ UNCHANGED addonFiles
           ELSE /\ addonFiles' = s.files
                /\ IF s.threw THEN Raise(p)
                   ELSE Return(p, Some([filePath |-> s.filePath, fileHash |-> s.fileHash]))
    /\ UNCHANGED <<catalogVars, addonDirs, iconFiles, now, call>>

\* deleteAddon.  existed: what existsSync(packageDir) answered.  An unlink
\* that fails makes the call raise, with the files before it removed.
StoreDeleteAddon(p, r, fault) ==
    /\ pc[p] = "idle"
    /\ LET packageDir == getAddonPath(r.id, r.name)
           inDir == {f \in addonFiles : InDir(f.path, packageDir)}
           d == deleteAddon(addonDirs, addonFiles, r.id, r.name)
       IN  /\ call' = [call EXCEPT ![p] =
                          [op |-> "deleteAddon", packageId |-> r.id,
                           packageName |-> r.name, existed |-> packageDir \in addonDirs]]
           /\ IF fault = "unlink" /\ packageDir \in addonDirs /\ inDir # {}
              THEN /\ \E kept \in SUBSET inDir \ {{}} :
                         addonFiles' = addonFiles \ (inDir \ kept)
                   /\ UNCHANGED addonDirs
                   /\ Raise(p)
              ELSE /\ addonDirs' = d.dirs
                   /\ addonFiles' = d.files
                   /\ Return(p, Null)
    /\ UNCHANGED <<catalogVars, iconFiles, now>>

\* saveIcon up to its writeFile: the checks, then deleteIcon.
StoreSaveIcon(p, r) ==
    /\ pc[p] = "idle"
    /\ call' = [call EXCEPT ![p] =
                   [op |-> "saveIcon", packageId |-> r.id, iconBuffer |-> r.bytes]]
    /\ IF saveIconAccepts(r.bytes)
       THEN Goto(p, "i_write") /\ iconFiles' = deleteIcon(iconFiles, r.id)
       ELSE Raise(p) /\ UNCHANGED iconFiles
    /\ UNCHANGED <<catalogVars, addonDirs, addonFiles, now>>

StoreSaveIconWrite(p, fault) ==
    /\ pc[p] = "i_write"
    /\ LET s == saveIconWrite(iconFiles, call[p].packageId, call[p].iconBuffer, fault)
       IN  /\ iconFiles' = s.files
           /\ IF s.threw THEN Raise(p) ELSE Return(p, s.iconUrl)
    /\ UNCHANGED <<catalogVars, addonDirs, addonFiles, now, call>>

StoreDeleteIcon(p, id) ==
    /\ pc[p] = "idle"
    /\ call' = [call EXCEPT ![p] =
                   [op |-> "deleteIcon", packageId |-> id,
                    existed |-> \E f \in iconFiles : f.path[2] = id]]
    /\ iconFiles' = deleteIcon(iconFiles, id)
    /\ Return(p, Null)
    /\ UNCHANGED <<catalogVars, addonDirs, addonFiles, now>>

StoreSaveRequests ==
    { [id |-> 1, name |-> NameA, bytes |-> b] : b \in {Archive, Archive2, NotZip} }
StoreDeleteRequests == { [id |-> 1, name |-> NameA] }
StoreIconRequests == { [id |-> 1, bytes |-> b] : b \in {Png, Gif, NoImage} }
StoreDeleteIconRequests == { 1 }

NextStore ==
    \/ \E p \in Procs : \E r \in StoreSaveRequests : \E fault \in {"none", "mkdir"} :
          Step(p, StoreSaveAddon(p, r, fault))
    \/ \E p \in Procs : \E fault \in {"none", "open", "write"} :
          Step(p, StoreSaveAddonWrite(p, fault))
    \/ \E p \in Procs : \E r \in StoreDeleteRequests : \E fault \in {"none", "unlink"} :
          Step(p, StoreDeleteAddon(p, r, fault))
    \/ \E p \in Procs : \E r \in StoreIconRequests : Step(p, StoreSaveIcon(p, r))
    \/ \E p \in Procs : \E fault \in {"none", "open", "write"} :
          Step(p, StoreSaveIconWrite(p, fault))
    \/ \E p \in Procs : \E id \in StoreDeleteIconRequests : Step(p, StoreDeleteIcon(p, id))
    \/ \E p \in Procs : Step(p, Finish(p))
    \/ Tick

SpecStore == Init /\ [][NextStore]_vars

\* The saveAddon of process p returns {filePath, fileHash} at this step.
SaveAddonReturns(p) ==
    /\ pc[p] = "s_write"
    /\ pc'[p] = "done"
    /\ result'[p].error = ""

\* C14: when a saveAddon(id, name, bytes) that no other saveAddon of the same
\* directory ran beside returns {filePath, fileHash}, whatever saves were made
\* before it, getLatestAddonFile(id, name) is that filePath and the content
\* of the file at that path has the hash fileHash.
C14_RoundTrip ==
    [][\A p \in Procs :
         (SaveAddonReturns(p) /\ call[p].alone) =>
            LET saved == result'[p].data[1]
            IN  /\ getLatestAddonFile(addonDirs', addonFiles', call[p].packageId,
                                      call[p].packageName) = Some(saved.filePath)
                /\ \E f \in addonFiles' :
                      /\ f.path = saved.filePath
                      /\ calculateBufferHash(f.data) = saved.fileHash]_vars

\* A save has returned into a directory that holds the file of an earlier
\* save, with another content.
C14_Witness ==
    \E p \in Procs :
        /\ pc[p] = "done"
        /\ call[p].op = "saveAddon"
        /\ call[p].alone
        /\ result[p].error = ""
        /\ \E f \in addonFiles :
              /\ InDir(f.path, getAddonPath(call[p].packageId, call[p].packageName))
              /\ f.path # result[p].data[1].filePath
              /\ f.data \notin {call[p].fileBuffer, Truncated}

\* C15: a saveAddon that returns has written a file of its own: the path it
\* wrote did not hold the file of an earlier successful save.
C15_NoOverwrite ==
    [][\A p \in Procs :
         SaveAddonReturns(p) =>
            ~\E f \in addonFiles :
                /\ f.path = result'[p].data[1].filePath
                /\ f.data # Truncated]_vars

---------------------------------------------------------------------------
(* Deleting a package *)

\* The delete of process p returns its success at this step.
DeleteReturns(p) ==
    /\ pc[p] = "d_deleteRow"
    /\ pc'[p] = "done"
    /\ result'[p].status = 200

\* The package directories and the archive files stored under a package id.
DirsOfId(dirs, packageId) == {d \in dirs : d.id = packageId}
ArchivesOfId(files, packageId) == {f \in files : f.path[2] = packageId}

\* C16: when DELETE /packages/:id returns its success, no row has that id
\* and no package directory and no archive file of that id is on disk.
C16_RowAndDirectoryGone ==
    [][\A p \in Procs :
         DeleteReturns(p) =>
            /\ RowsOfId(packages', call[p].packageId) = {}
            /\ DirsOfId(addonDirs', call[p].packageId) = {}
            /\ ArchivesOfId(addonFiles', call[p].packageId) = {}]_vars


\* Process p takes a step of its DELETE /packages/:id.
DeleteStep(p) ==
    /\ pc'[p] # pc[p]
    /\ call'[p].op = "delete"

\* What belongs to the packages other than packageId.
OtherRows(rows, packageId) == {r \in rows : r.id # packageId}
OtherHistory(history, packageId) == {h \in history : h.package_id # packageId}
OtherDirs(dirs, packageId) == {d \in dirs : d.id # packageId}
OtherFiles(files, packageId) == {f \in files : f.path[2] # packageId}

StoreCall(p, op) ==
    /\ pc[p] = "idle"
    /\ pc'[p] = "done"
    /\ call'[p].op = op

---------------------------------------------------------------------------
(* A create whose icon saveIcon rejects *)

\* The request came with an icon that saveIcon rejects.
IconRejected(body) ==
    /\ "iconBase64" \in DOMAIN body
    /\ ~saveIconAccepts(body["iconBase64"])

\* C19: a create whose archive was saved and whose icon saveIcon rejects
\* returns 201; the row and the archive of the package exist, the row's
\* icon_url is null and the package has no icon file.
C19_RejectedIconCreates ==
    \A p \in Procs :
        (/\ pc[p] = "done"
         /\ call[p].op = "create"
         /\ IconRejected(call[p].body)
         /\ call[p].saved # Null)
        => /\ result[p].status = 201
           /\ \E row \in packages :
                 /\ row.id = call[p].packageId
                 /\ row.name = call[p].name
                 /\ row.icon_url = Null
           /\ getLatestAddonFile(addonDirs, addonFiles, call[p].packageId,
                                 call[p].name) # Null
           /\ IconsOf(iconFiles, call[p].packageId) = {}

\* Such a create has returned, its icon too large.
C19_Witness ==
    \E p \in Procs :
        /\ pc[p] = "done"
        /\ call[p].op = "create"
        /\ IconRejected(call[p].body)
        /\ call[p].body["iconBase64"].size > MAX_ICON_SIZE
        /\ call[p].saved # Null
        /\ result[p].status = 201

---------------------------------------------------------------------------
(* Categories: POST /admin/tags and DELETE /admin/tags/:id *)

\* Token, then the role as the database has it.
AdminChecks(r, error) ==
    IF NoToken(r) THEN Fail(401, "Unauthorized: Missing or invalid token")
    ELSE IF getUserById(r.actor) = Null \/ getUserById(r.actor)[1].role # "admin"
    THEN Fail(403, error)
    ELSE Next_("t_getTag")

\* /^[a-z0-9-]+$/
slugRegex(slug) ==
    /\ Len(slug) >= 1
    /\ \A i \in 1..Len(slug) :
          \/ \E k \in 1..26 : LowerCase[k] = slug[i]
          \/ slug[i] \in Digits
          \/ slug[i] = "-"

TagCreateChecks(r) ==
    LET body == r.body
        admin == AdminChecks(r, "Forbidden: Only admins can create tags")
    IN  IF admin.goto = "done" THEN admin
        ELSE IF ~Truthy(body, "name") \/ ~Truthy(body, "slug")
        THEN Fail(400, "Name and slug are required")
        ELSE IF Len(body["name"]) < 1 \/ Len(body["name"]) > 32
        THEN Fail(400, "Tag name must be between 1 and 32 characters")
        ELSE IF ~slugRegex(body["slug"]) \/ Len(body["slug"]) < 1 \/ Len(body["slug"]) > 32
        THEN Fail(400, "Tag slug must be lowercase alphanumeric with hyphens, 1-32 characters")
        ELSE Next_("t_getSlug")

TagCreateStart(p, r) ==
    /\ pc[p] = "idle"
    /\ call' = [call EXCEPT ![p] = [op |-> "createTag", actor |-> r.actor, body |-> r.body]]
    /\ Proceed(p, TagCreateChecks(r))
    /\ UNCHANGED <<catalogVars, storeVars, now>>

TagCreateGetSlug(p) ==
    /\ pc[p] = "t_getSlug"
    /\ IF getTagBySlug(call[p].body["slug"]) # Null
       THEN Respond(p, 409, "Tag with this slug already exists", Null)
       ELSE Goto(p, "t_insert")
    /\ UNCHANGED <<catalogVars, storeVars, now, call>>

\* DB.createTag: INSERT INTO tags (name, slug); name and slug are UNIQUE.
DB_createTag(rows, seq, name, slug) ==
    IF \E t \in rows : t.name = name \/ t.slug = slug
    THEN [threw |-> TRUE, rows |-> rows, seq |-> seq]
    ELSE [threw |-> FALSE,
          rows |-> rows \cup {[id |-> seq + 1, name |-> name, slug |-> slug]},
          seq |-> seq + 1]

TagCreateInsert(p) ==
    /\ pc[p] = "t_insert"
    /\ tagSeq < MaxTagId
    /\ LET ins == DB_createTag(tags, tagSeq, call[p].body["name"], call[p].body["slug"])
       IN  /\ tags' = ins.rows
           /\ tagSeq' = ins.seq
           /\ IF ins.threw THEN Respond(p, 500, "Failed to create tag", Null)
              ELSE Respond(p, 201, "", Null)
    /\ UNCHANGED <<packages, pkgSeq, users, download_history, histSeq, foreign_keys,
                   storeVars, now, call>>

TagDeleteStart(p, r) ==
    /\ pc[p] = "idle"
    /\ call' = [call EXCEPT ![p] = [op |-> "deleteTag", actor |-> r.actor, tagId |-> r.id]]
    /\ Proceed(p, AdminChecks(r, "Forbidden: Only admins can delete tags"))
    /\ UNCHANGED <<catalogVars, storeVars, now>>

TagDeleteGetTag(p) ==
    /\ pc[p] = "t_getTag"
    /\ IF getTagById(call[p].tagId) = Null
       THEN Respond(p, 404, "Tag not found", Null)
       ELSE Goto(p, "t_delete")
    /\ UNCHANGED <<catalogVars, storeVars, now, call>>

\* DB.deleteTag: DELETE FROM tags WHERE id = tagId.  packages.category_id
\* REFERENCES tags(id) with no ON DELETE clause: the DELETE is refused for a
\* tag that a package references when the connection enforces foreign keys,
\* and goes through when it does not.
DB_deleteTag(rows, tagId) ==
    IF foreign_keys /\ \E r \in packages : r.category_id = Some(tagId)
    THEN [threw |-> TRUE, rows |-> rows]
    ELSE [threw |-> FALSE, rows |-> {t \in rows : t.id # tagId}]

TagDeleteRow(p) ==
    /\ pc[p] = "t_delete"
    /\ LET del == DB_deleteTag(tags, call[p].tagId)
       IN  /\ tags' = del.rows
           /\ IF del.threw THEN Respond(p, 500, "Failed to delete tag", Null)
              ELSE Respond(p, 200, "", Null)
    /\ UNCHANGED <<packages, pkgSeq, tagSeq, users, download_history, histSeq,
                   foreign_keys, storeVars, now, call>>

\* A create in category maps; updates that set and that clear the category.
TagPackageCreateRequests ==
    { Request(Developer1, [name |-> NameA, fileBase64 |-> Archive, category |-> Maps]) }
TagPackageUpdateRequests ==
    { RequestOn(Developer1, 1, [category |-> Some(Maps)]),
      RequestOn(Developer1, 1, [category |-> Null]) }
TagCreateRequests ==
    { Request(Admin, [name |-> Maps, slug |-> <<"m", "a", "p", "s">>]),
      Request(Developer1, [name |-> Maps, slug |-> <<"m", "a", "p", "s">>]) }
TagDeleteRequests == { [actor |-> Admin, id |-> 1] }

NextTag ==
    \/ \E p \in Procs : \E r \in TagPackageCreateRequests : Step(p, CreateStart(p, r))
    \/ \E p \in Procs : Step(p, CreateGetPackage(p))
    \/ \E p \in Procs : Step(p, CreateGetTag(p))
    \/ \E p \in Procs : Step(p, CreateInsert(p))
    \/ \E p \in Procs : Step(p, CreateSaveAddon(p))
    \/ \E p \in Procs : Step(p, CreateCleanupRow(p))
    \/ \E p \in Procs : Step(p, CreateCleanupIcon(p))
    \/ \E p \in Procs : Step(p, CreateFetch(p))
    \/ \E p \in Procs : \E r \in TagPackageUpdateRequests : Step(p, UpdateStart(p, r))
    \/ \E p \in Procs : Step(p, UpdateGetTag(p))
    \/ \E p \in Procs : Step(p, UpdateDbSelect(p))
    \/ \E p \in Procs : Step(p, UpdateDbUpdate(p))
    \/ \E p \in Procs : Step(p, UpdateFetch(p))
    \/ \E p \in Procs : \E r \in TagCreateRequests : Step(p, TagCreateStart(p, r))
    \/ \E p \in Procs : Step(p, TagCreateGetSlug(p))
    \/ \E p \in Procs : Step(p, TagCreateInsert(p))
    \/ \E p \in Procs : \E r \in TagDeleteRequests : Step(p, TagDeleteStart(p, r))
    \/ \E p \in Procs : Step(p, TagDeleteGetTag(p))
    \/ \E p \in Procs : Step(p, TagDeleteRow(p))
    \/ \E p \in Procs : Step(p, Finish(p))

SpecTag == InitDl /\ [][NextTag]_vars

\* C20: each package whose category_id is set references a row of tags.
C20_CategoryExists ==
    \A r \in packages :
        r.category_id # Null => getTagById(r.category_id[1]) # Null

---------------------------------------------------------------------------
(* Names and versions: what create and update let into the catalog *)

\* Creates with a name and a version that match, with a version left out,
\* with the empty version, with a name and with a version that do not match.
ValidCreateRequests ==
    { Request(Developer1, [name |-> NameA, fileBase64 |-> Archive]),
      Request(Developer1, [name |-> NameA, version |-> EmptyString, fileBase64 |-> Archive]),
      Request(Developer1, [name |-> <<"a", "!">>, fileBase64 |-> Archive]),
      Request(Developer1, [name |-> NameB, version |-> <<"1", ".", "0">>,
                           fileBase64 |-> Archive]) }

\* Updates of the name and of the version of package 1: values that match,
\* values that do not, the empty string.
ValidUpdateRequests ==
    { RequestOn(Developer1, 1, [name |-> NameB, version |-> <<"2", ".", "0", ".", "1">>]),
      RequestOn(Developer1, 1, [name |-> <<"b", " ">>]),
      RequestOn(Developer1, 1, [version |-> <<"2">>]),
      RequestOn(Developer1, 1, [name |-> EmptyString]),
      RequestOn(Developer1, 1, [version |-> EmptyString]) }

NextValid ==
    \/ \E p \in Procs : \E r \in ValidCreateRequests : Step(p, CreateStart(p, r))
    \/ \E p \in Procs : Step(p, CreateGetPackage(p))
    \/ \E p \in Procs : Step(p, CreateInsert(p))
    \/ \E p \in Procs : Step(p, CreateSaveAddon(p))
    \/ \E p \in Procs : Step(p, CreateCleanupRow(p))
    \/ \E p \in Procs : Step(p, CreateCleanupIcon(p))
    \/ \E p \in Procs : Step(p, CreateFetch(p))
    \/ \E p \in Procs : \E r \in ValidUpdateRequests : Step(p, UpdateStart(p, r))
    \/ \E p \in Procs : Step(p, UpdateGetPackage(p))
    \/ \E p \in Procs : Step(p, UpdateDbSelect(p))
    \/ \E p \in Procs : Step(p, UpdateDbUpdate(p))
    \/ \E p \in Procs : Step(p, UpdateFetch(p))
    \/ \E p \in Procs : Step(p, Finish(p))

SpecValid == Init /\ [][NextValid]_vars

\* C21: the name of every row of packages matches PACKAGE_NAME_REGEX and its
\* version matches VERSION_REGEX.
C21_NameAndVersionMatch ==
    \A r \in packages : PACKAGE_NAME_REGEX(r.name) /\ VERSION_REGEX(r.version)


---------------------------------------------------------------------------
(* What a successful create or update returns *)

\* The call of p has just been answered with success: true.
ReportsSuccess(p) ==
    /\ pc[p] # "done" /\ pc'[p] = "done"
    /\ call[p].op \in {"create", "update"}
    /\ result'[p].status \in {200, 201}

\* C22: a create or update that reports success returns an entry: the row of
\* its package as it is in packages at that moment, joined with the row's
\* author and with the row's category.
C22_SuccessReturnsEntry ==
    [][\A p \in Procs :
         ReportsSuccess(p) =>
           /\ result'[p].data # Null
           /\ result'[p].data[1].pkg \in packages'
           /\ result'[p].data[1].pkg.id = call[p].packageId
           /\ result'[p].data[1].author # Null]_vars


---------------------------------------------------------------------------
(* Two updates of one package that both carry an archive *)

Archive3 == Buffer(7, <<80, 75, 3, 4, 3>>)
Version2 == <<"2", ".", "0", ".", "0">>
Version3 == <<"3", ".", "0", ".", "0">>

RaceCreateRequests ==
    { Request(Developer1, [name |-> NameA, fileBase64 |-> Archive]) }

\* Two updates of package 1 by its owner, each with a version and an archive
\* of its own.
RaceUpdateRequests ==
    { RequestOn(Developer1, 1, [version |-> Version2, fileBase64 |-> Archive2]),
      RequestOn(Developer1, 1, [version |-> Version3, fileBase64 |-> Archive3]) }

NextRace ==
    \/ \E p \in Procs : \E r \in RaceCreateRequests : Step(p, CreateStart(p, r))
    \/ \E p \in Procs : Step(p, CreateGetPackage(p))
    \/ \E p \in Procs : Step(p, CreateInsert(p))
    \/ \E p \in Procs : Step(p, CreateSaveAddon(p))
    \/ \E p \in Procs : Step(p, CreateCleanupRow(p))
    \/ \E p \in Procs : Step(p, CreateCleanupIcon(p))
    \/ \E p \in Procs : Step(p, CreateFetch(p))
    \/ \E p \in Procs : \E r \in RaceUpdateRequests : Step(p, UpdateStart(p, r))
    \/ \E p \in Procs : Step(p, UpdateDeleteAddon(p))
    \/ \E p \in Procs : Step(p, UpdateSaveAddon(p))
    \/ \E p \in Procs : Step(p, UpdateDbSelect(p))
    \/ \E p \in Procs : Step(p, UpdateDbUpdate(p))
    \/ \E p \in Procs : Step(p, UpdateFetch(p))
    \/ \E p \in Procs : Step(p, Finish(p))
    \/ Tick

SpecRace == Init /\ [][NextRace]_vars

\* Two updates of one package, with different bodies, have both been answered
\* 200 and neither answer has been collected yet.
BothUpdated(p, q) ==
    /\ p # q
    /\ pc[p] = "done" /\ pc[q] = "done"
    /\ call[p].op = "update" /\ call[q].op = "update"
    /\ call[p].packageId = call[q].packageId
    /\ call[p].body # call[q].body
    /\ result[p].status = 200 /\ result[q].status = 200

\* The content getLatestAddonFile leads to for the row r, or null.
LatestArchive(r) ==
    LET latest == getLatestAddonFile(addonDirs, addonFiles, r.id, r.name)
    IN  IF latest = Null THEN Null ELSE getAddonStream(addonFiles, latest[1])

\* C23: with no more than two requests in flight at a time (so that no third
\* call writes among them), once two overlapping updates of one package, both
\* with an archive, have both succeeded, the latest archive of the package is
\* the archive of one of the two calls and the version of its row is the
\* version of one of the two calls; the two need not be the same call
\* (C23_Witness).
C23_ArchiveAndMetadataOfTheCalls ==
    Cardinality(Procs) <= 2 =>
      \A p, q \in Procs :
        BothUpdated(p, q) =>
          \A r \in packages :
            r.id = call[p].packageId =>
              /\ LatestArchive(r) \in {Some(call[p].body["fileBase64"]),
                                       Some(call[q].body["fileBase64"])}
              /\ r.version \in {call[p].body["version"], call[q].body["version"]}

\* Both updates succeeded; the latest archive is the one of call p and the
\* row's version is the one of call q.
C23_Witness ==
    \E p, q \in Procs :
      /\ BothUpdated(p, q)
      /\ \E r \in packages :
           /\ r.id = call[p].packageId
           /\ LatestArchive(r) = Some(call[p].body["fileBase64"])
           /\ r.version = call[q].body["version"]


---------------------------------------------------------------------------
(* Startup on the databases of earlier versions *)

\* Largest number of initDB runs in one behaviour.
MaxBoots == 3

Items == [id |-> 1, name |-> <<"I", "t", "e", "m", "s">>, slug |-> <<"i", "t", "e", "m", "s">>]
Survival ==
    [id |-> 2, name |-> <<"S", "u", "r", "v", "i", "v", "a", "l">>,
     slug |-> <<"s", "u", "r", "v", "i", "v", "a", "l">>]
Adventure ==
    [id |-> 3, name |-> <<"A", "d", "v", "e", "n", "t", "u", "r", "e">>,
     slug |-> <<"a", "d", "v", "e", "n", "t", "u", "r", "e">>]
\* A tag an administrator made: the name of a default category, another slug.
Grub == [id |-> 4, name |-> <<"F", "o", "o", "d">>, slug |-> <<"g", "r", "u", "b">>]

\* A row of packages as a database of an earlier version holds it.
StoredPackage(id, name, author, category_id) ==
    [id |-> id, name |-> name, description |-> EmptyString, author_id |-> author,
     file_path |-> EmptyString, file_hash |-> EmptyString,
     version |-> <<"1", ".", "0", ".", "0">>, downloads |-> 0,
     icon_url |-> Null, kofi_url |-> Null, long_description |-> Null,
     youtube_url |-> Null, discord_url |-> Null, category_id |-> category_id]

\* The schema before packages had a category: the tables of the first
\* version, with the columns up to the n-th of AddedColumns.
SchemaUpTo(n) ==
    AddColumns(CreateTables({}) \ {<<"users", "role">>}, "packages",
               SubSeq(AddedColumns, 1, n))

\* The databases startup finds: none; one of a version that kept the tags of
\* a package in package_tags; one of a version with packages.category_id.
InitMig ==
    /\ boot = [at |-> "down", runs |-> 0]
    /\ rateLimitStore = <<>>
    /\ loginRateLimitStore = <<>>
    /\ admitted = <<>>
    /\ \/ /\ schema = {}
          /\ tags = {} /\ tagSeq = 0
          /\ packages = {} /\ pkgSeq = 0
          /\ package_tags = {}
          /\ users = {}
       \/ /\ schema \in {SchemaUpTo(0), SchemaUpTo(2), SchemaUpTo(Len(AddedColumns))}
          /\ tags \in SUBSET {Items, Survival, Adventure, Grub} /\ tagSeq = 4
          /\ packages = {StoredPackage(1, NameA, Developer1, Null),
                         StoredPackage(2, NameB, Developer2, Null)}
          /\ pkgSeq = 2
          /\ package_tags \in SUBSET {[package_id |-> l[1], tag_id |-> l[2]] :
                                        l \in {<<1, 1>>, <<1, 2>>, <<2, 2>>}}
          /\ \A l \in package_tags : \E t \in tags : t.id = l.tag_id
          /\ users = {[id |-> Developer1, role |-> "user"],
                      [id |-> Developer2, role |-> "user"]}
       \/ /\ schema = CurrentSchema
          /\ tags \in SUBSET {Items, Survival, Adventure, Grub} /\ tagSeq = 4
          /\ \E c \in {Null} \cup {<<t.id>> : t \in tags} :
               packages = {StoredPackage(1, NameA, Developer1, c),
                           StoredPackage(2, NameB, Developer2, Null)}
          /\ pkgSeq = 2
          /\ package_tags = {}
          /\ users = {[id |-> Developer1, role |-> "developer"],
                      [id |-> Developer2, role |-> "developer"],
                      [id |-> Admin, role |-> "admin"]}
    /\ download_history = {}
    /\ histSeq = 0
    /\ foreign_keys = FALSE
    /\ addonDirs = {}
    /\ addonFiles = {}
    /\ iconFiles = {}
    /\ now = 0
    /\ pc = [p \in Procs |-> "idle"]
    /\ call = [p \in Procs |-> Idle]
    /\ result = [p \in Procs |-> NoResult]
    /\ wrote = [p \in Procs |-> FALSE]
    /\ recorded = [k \in Ids \X Days |-> 0]
    /\ calls = 0

bootFrame ==
    <<users, download_history, histSeq, foreign_keys, storeVars, now, pc, call, result,
      wrote, recorded, calls, rateLimitStore, loginRateLimitStore, admitted>>

\* The process starts: initDB begins with its CREATE TABLE IF NOT EXISTS.
InitDBCreateTables ==
    /\ boot.at = "down"
    /\ schema' = CreateTables(schema)
    /\ boot' = [boot EXCEPT !.at = "migrate"]
    /\ UNCHANGED <<packages, pkgSeq, tags, tagSeq, package_tags, bootFrame>>

\* await this.runMigrations()
InitDBRunMigrations ==
    /\ boot.at = "migrate"
    /\ LET db == runMigrations([schema |-> schema, packages |-> packages, tags |-> tags,
                                tagSeq |-> tagSeq, package_tags |-> package_tags])
       IN  schema' = db.schema /\ packages' = db.packages
    /\ boot' = [boot EXCEPT !.at = "seed"]
    /\ UNCHANGED <<pkgSeq, tags, tagSeq, package_tags, bootFrame>>

\* await this.seedDefaultTags(); initDB returns and the server listens.
InitDBSeedDefaultTags ==
    /\ boot.at = "seed"
    /\ LET seeded == seedDefaultTags(tags, tagSeq)
       IN  tags' = seeded.rows /\ tagSeq' = seeded.seq
    /\ boot' = [at |-> "up", runs |-> boot.runs + 1]
    /\ UNCHANGED <<schema, packages, pkgSeq, package_tags, bootFrame>>

\* The process is stopped, to be started again.
Restart ==
    /\ boot.at = "up"
    /\ boot.runs < MaxBoots
    /\ boot' = [boot EXCEPT !.at = "down"]
    /\ UNCHANGED <<schema, packages, pkgSeq, tags, tagSeq, package_tags, bootFrame>>

NextMig ==
    \/ InitDBCreateTables
    \/ InitDBRunMigrations
    \/ InitDBSeedDefaultTags
    \/ Restart

SpecMig == InitMig /\ [][NextMig]_vars

\* C24: a step of initDB in a second or later run leaves the tables and
\* their columns, the rows of tags and the rows of packages as they were.
C24_SecondRunChangesNothing ==
    [][(boot.runs >= 1 /\ boot' # boot) => UNCHANGED <<schema, tags, packages>>]_vars

\* A second run has ended on a database whose first run found tags of an
\* earlier version and packages with rows in package_tags: the packages have
\* their first tag as category, and the default categories are seeded.
C24_Witness ==
    /\ boot = [at |-> "up", runs |-> 2]
    /\ Items \in tags /\ Survival \in tags
    /\ package_tags # {}
    /\ \E r \in packages : r.category_id = <<MinTagId(package_tags, r.id)>>
    /\ Cardinality(tags) > Len(defaultCategories)

\* C25: once initDB has run, tags holds exactly one row with the slug of
\* each default category.
C25_EveryDefaultSlugSeeded ==
    boot.runs >= 1 =>
      \A i \in 1..Len(defaultCategories) :
        Cardinality({t \in tags : t.slug = defaultCategories[i].slug}) = 1

\* The slug of the category of the row r, or null.
SlugOfCategory(r) ==
    IF r.category_id = Null \/ ~\E t \in tags : t.id = r.category_id[1] THEN Null
    ELSE Some((CHOOSE t \in tags : t.id = r.category_id[1]).slug)

\* C26: once startup has run twice, no package has a category whose slug is
\* an old slug of the remap table: a package that had one references the
\* category of the mapped slug instead.
C26_RemappedAfterTwoRuns ==
    (boot.runs >= 2 /\ boot.at = "up") =>
      \A r \in packages :
        \A i \in 1..Len(tagMigrationMap) : SlugOfCategory(r) # Some(tagMigrationMap[i][1])


---------------------------------------------------------------------------
(* Rate limiting *)

RATE_LIMIT_WINDOW == 60000
RATE_LIMIT_MAX_REQUESTS == 600
LOGIN_RATE_LIMIT_MAX == 5
LOGIN_RATE_LIMIT_WINDOW == 900000

\* What getClientIP makes of the requests: the key of the limiters.
ClientIps == {"10.0.0.1", "10.0.0.2"}

\* Math.ceil(ms / 1000)
CeilSeconds(ms) == IF ms >= 0 THEN (ms + 999) \div 1000 ELSE -((-ms) \div 1000)

\* A checkRateLimit that denies only once the count is past the maximum, and
\* so lets one request more through.
checkRateLimit_offByOne(store, key, maxRequests, windowMs, t) ==
    IF key \notin DOMAIN store \/ t > store[key].resetTime
    THEN [allowed |-> TRUE, remaining |-> maxRequests - 1, resetTime |-> t + windowMs,
          store |-> (key :> [count |-> 1, resetTime |-> t + windowMs]) @@ store]
    ELSE IF store[key].count > maxRequests
    THEN [allowed |-> FALSE, remaining |-> 0, resetTime |-> store[key].resetTime,
          store |-> store]
    ELSE [allowed |-> TRUE, remaining |-> maxRequests - (store[key].count + 1),
          resetTime |-> store[key].resetTime,
          store |-> [store EXCEPT ![key].count = @ + 1]]

\* checkRateLimit(store, key, maxRequests, windowMs) at Date.now() = t; store
\* is the map after the call.
checkRateLimit(store, key, maxRequests, windowMs, t) ==
    IF key \notin DOMAIN store \/ t > store[key].resetTime
    THEN [allowed |-> TRUE, remaining |-> maxRequests - 1, resetTime |-> t + windowMs,
          store |-> (key :> [count |-> 1, resetTime |-> t + windowMs]) @@ store]
    ELSE IF store[key].count >= maxRequests
    THEN [allowed |-> FALSE, remaining |-> 0, resetTime |-> store[key].resetTime,
          store |-> store]
    ELSE [allowed |-> TRUE, remaining |-> maxRequests - (store[key].count + 1),
          resetTime |-> store[key].resetTime,
          store |-> [store EXCEPT ![key].count = @ + 1]]

\* The entries the minute timer deletes: those past their reset time.
Unexpired(store, t) ==
    [k \in {j \in DOMAIN store : ~(t > store[j].resetTime)} |-> store[k]]

\* A step of process p that is not one of the package handlers.
Handle(p, A) ==
    /\ A
    /\ UNCHANGED <<wrote, recorded, calls, schema, package_tags, boot>>

\* The timer: setInterval(..., 60 * 1000).
CleanUp ==
    /\ \/ Unexpired(rateLimitStore, now) # rateLimitStore
       \/ Unexpired(loginRateLimitStore, now) # loginRateLimitStore
    /\ rateLimitStore' = Unexpired(rateLimitStore, now)
    /\ loginRateLimitStore' = Unexpired(loginRateLimitStore, now)
    /\ UNCHANGED <<catalogVars, storeVars, now, pc, call, result, wrote, recorded, calls,
                   schema, package_tags, boot, admitted>>

\* d milliseconds pass.
Elapse(d) ==
    /\ now' = now + d
    /\ UNCHANGED <<catalogVars, storeVars, pc, call, result, wrote, recorded, calls,
                   schema, package_tags, boot, rateLimitStore, loginRateLimitStore,
                   admitted>>

\* url.pathname.startsWith("/public/") || url.pathname === "/health", on the
\* segments of the path.
SkipsRateLimit(path) ==
    \/ Len(path) >= 2 /\ path[1] = "public"
    \/ path = <<"health">>

\* The log with one more request let through by limiter store.
Admit(log, store, ip, t) == log (+) SetToBag({[store |-> store, ip |-> ip, at |-> t]})

\* The onBeforeHandle hook of the rate limiter, for a request r = [ip, path],
\* and, when it lets the request through, the answer of the route.
BeforeHandle(p, r) ==
    /\ pc[p] = "idle"
    /\ call' = [call EXCEPT ![p] = [op |-> "request", ip |-> r.ip, path |-> r.path]]
    /\ IF SkipsRateLimit(r.path)
       THEN /\ Respond(p, 200, "", Null)
            /\ UNCHANGED <<rateLimitStore, admitted>>
       ELSE LET rateLimit == checkRateLimit(rateLimitStore, r.ip, RATE_LIMIT_MAX_REQUESTS,
                                            RATE_LIMIT_WINDOW, now)
            IN  /\ rateLimitStore' = rateLimit.store
                /\ IF rateLimit.allowed
                   THEN /\ Respond(p, 200, "", Null)
                        /\ admitted' = Admit(admitted, "general", r.ip, now)
                   ELSE /\ Respond(p, 429, "Too many requests. Please try again later.",
                                   Some([RetryAfter |->
                                           CeilSeconds(rateLimit.resetTime - now)]))
                        /\ UNCHANGED admitted
    /\ UNCHANGED <<catalogVars, storeVars, now, loginRateLimitStore>>

\* Largest number of requests the general limiter lets through in one
\* behaviour.
MaxAdmitted == 102

GeneralRequests ==
    { [ip |-> "10.0.0.1", path |-> <<"packages">>],
      [ip |-> "10.0.0.1", path |-> <<"health">>],
      [ip |-> "10.0.0.1", path |-> <<"public", "style.css">>] }

NextGeneral ==
    \/ \E p \in Procs : \E r \in GeneralRequests :
         BagCardinality(admitted) < MaxAdmitted /\ Handle(p, BeforeHandle(p, r))
    \/ \E p \in Procs : Step(p, Finish(p))
    \/ now = 0 /\ Elapse(RATE_LIMIT_WINDOW + 1)
    \/ CleanUp

SpecGeneral == Init /\ [][NextGeneral]_vars

\* How many requests of log limiter store let through from ip at a time in
\* [from, from + length).
AdmittedIn(log, store, ip, from, length) ==
    LET inside == {e \in DOMAIN log :
                     /\ e.store = store /\ e.ip = ip
                     /\ e.at >= from /\ e.at < from + length}
    IN  BagCardinality([e \in inside |-> log[e]])

\* C28: the general limiter lets at most 100 requests of one client IP
\* through in one minute.
C28_HundredPerMinute ==
    \A e \in DOMAIN admitted :
      e.store = "general" => AdmittedIn(admitted, "general", e.ip, e.at, 60000) <= 100

---------------------------------------------------------------------------
(* POST /auth/login and POST /auth/2fa/enable *)

\* The columns of users that the 2FA handlers read and write.  initDB does
\* not create them: a database has them only when they were added to it.
TwoFactorColumns ==
    {<<"users", "two_factor_enabled">>, <<"users", "two_factor_secret">>,
     <<"users", "backup_codes">>}

\* hashPassword / comparePassword.
hashPassword(password) == <<"bcrypt", password>>
comparePassword(password, hash) == hash = hashPassword(password)

\* The 30 second step of a time, and the code of an authenticator with that
\* secret at that step.
TotpStep(t) == t \div 30000
TotpCode(secret, counter) == [secret |-> secret, counter |-> counter]

\* verify2FAToken(token, secret) at Date.now() = t: window 2, the code of a
\* step at most two away.
verify2FAToken(token, secret, t) ==
    /\ token.secret = secret
    /\ token.counter - TotpStep(t) \in -2..2

\* getUser(username): results[0], or undefined.
getUser(username) == First({u \in users : u.username = username})

\* user.two_factor_enabled is truthy.
TwoFactorEnabled(user) ==
    "two_factor_enabled" \in DOMAIN user /\ user.two_factor_enabled = 1

\* The login handler up to its first await: the limiter of every route, then
\* the one of the login.  r = [ip, body].
LoginStart(p, r) ==
    /\ pc[p] = "idle"
    /\ call' = [call EXCEPT ![p] = [op |-> "login", ip |-> r.ip, body |-> r.body,
                                    user |-> Null]]
    /\ LET rateLimit == checkRateLimit(rateLimitStore, r.ip, RATE_LIMIT_MAX_REQUESTS,
                                       RATE_LIMIT_WINDOW, now)
           loginRateLimit == checkRateLimit(loginRateLimitStore, r.ip,
                                            LOGIN_RATE_LIMIT_MAX,
                                            LOGIN_RATE_LIMIT_WINDOW, now)
       IN  /\ rateLimitStore' = rateLimit.store
           /\ IF ~rateLimit.allowed
              THEN /\ Respond(p, 429, "Too many requests. Please try again later.",
                              Some([RetryAfter |-> CeilSeconds(rateLimit.resetTime - now)]))
                   /\ UNCHANGED <<loginRateLimitStore, admitted>>
              ELSE /\ loginRateLimitStore' = loginRateLimit.store
                   /\ IF ~loginRateLimit.allowed
                      THEN /\ Respond(p, 429,
                                      "Too many login attempts. Please try again later.",
                                      Some([RetryAfter |->
                                              CeilSeconds(loginRateLimit.resetTime - now)]))
                           /\ admitted' = Admit(admitted, "general", r.ip, now)
                      ELSE /\ Goto(p, "l_turnstile")
                           /\ admitted' = Admit(Admit(admitted, "general", r.ip, now),
                                                "login", r.ip, now)
    /\ UNCHANGED <<catalogVars, storeVars, now>>

\* await verifyTurnstile(turnstileToken, ip), which the CAPTCHA service
\* decides, then the check of the inputs.
LoginTurnstile(p) ==
    /\ pc[p] = "l_turnstile"
    /\ \E success \in BOOLEAN :
         IF ~success THEN Respond(p, 400, "CAPTCHA verification failed", Null)
         ELSE IF ~Truthy(call[p].body, "username") \/ ~Truthy(call[p].body, "password")
         THEN Respond(p, 400, "Username and password are required", Null)
         ELSE Goto(p, "l_getUser")
    /\ UNCHANGED <<catalogVars, storeVars, now, call, rateLimitStore, loginRateLimitStore,
                   admitted>>

\* await database.getUser(username)
LoginGetUser(p) ==
    /\ pc[p] = "l_getUser"
    /\ LET user == getUser(call[p].body["username"])
       IN  IF user = Null
           THEN Respond(p, 401, "Invalid username or password", Null) /\ UNCHANGED call
           ELSE Goto(p, "l_compare") /\ call' = [call EXCEPT ![p].user = user]
    /\ UNCHANGED <<catalogVars, storeVars, now, rateLimitStore, loginRateLimitStore,
                   admitted>>

\* A login that takes any code once the account has a secret.
LoginCompare_anyCode(p) ==
    /\ pc[p] = "l_compare"
    /\ LET user == call[p].user[1]
           body == call[p].body
       IN  IF ~comparePassword(body["password"], user.password_hash)
           THEN Respond(p, 401, "Invalid username or password", Null)
           ELSE IF TwoFactorEnabled(user) /\ ~Truthy(body, "totpCode")
           THEN Respond(p, 403, "2FA required", Null)
           ELSE IF TwoFactorEnabled(user) /\ user.two_factor_secret = Null
           THEN Respond(p, 401, "Invalid 2FA code", Null)
           ELSE Respond(p, 200, "", Some([token |-> [id |-> user.id, role |-> user.role],
                                          user |-> user.id]))
    /\ UNCHANGED <<catalogVars, storeVars, now, call, rateLimitStore, loginRateLimitStore,
                   admitted>>

\* await comparePassword(password, user.password_hash), the 2FA checks and
\* generateToken.
LoginCompare(p) ==
    /\ pc[p] = "l_compare"
    /\ LET user == call[p].user[1]
           body == call[p].body
       IN  IF ~comparePassword(body["password"], user.password_hash)
           THEN Respond(p, 401, "Invalid username or password", Null)
           ELSE IF TwoFactorEnabled(user) /\ ~Truthy(body, "totpCode")
           THEN Respond(p, 403, "2FA required", Null)
           ELSE IF /\ TwoFactorEnabled(user)
                   /\ \/ user.two_factor_secret = Null
                      \/ ~verify2FAToken(body["totpCode"], user.two_factor_secret[1], now)
           THEN Respond(p, 401, "Invalid 2FA code", Null)
           ELSE Respond(p, 200, "", Some([token |-> [id |-> user.id, role |-> user.role],
                                          user |-> user.id]))
    /\ UNCHANGED <<catalogVars, storeVars, now, call, rateLimitStore, loginRateLimitStore,
                   admitted>>

\* POST /auth/2fa/enable up to its UPDATE: token, getUserById, the code.
\* r = [actor, body].
EnableStart(p, r) ==
    /\ pc[p] = "idle"
    /\ call' = [call EXCEPT ![p] = [op |-> "enable2fa", actor |-> r.actor, body |-> r.body]]
    /\ IF NoToken(r) THEN Respond(p, 401, "Unauthorized: Missing or invalid token", Null)
       ELSE IF getUserById(r.actor) = Null THEN Respond(p, 404, "User not found", Null)
       ELSE IF ~verify2FAToken(r.body["token"], r.body["secret"], now)
       THEN Respond(p, 400, "Invalid 2FA token", Null)
       ELSE Goto(p, "e_update")
    /\ UNCHANGED <<catalogVars, storeVars, now, rateLimitStore, loginRateLimitStore,
                   admitted>>

\* UPDATE users SET two_factor_enabled = 1, two_factor_secret = secret, ...
\* WHERE id = user.id.  The statement fails on a table without the columns.
EnableUpdate(p) ==
    /\ pc[p] = "e_update"
    /\ IF ~(TwoFactorColumns \subseteq schema)
       THEN Respond(p, 500, "Failed to enable 2FA", Null) /\ UNCHANGED users
       ELSE /\ users' = {IF u.id = call[p].actor
                         THEN [u EXCEPT !.two_factor_enabled = 1,
                                        !.two_factor_secret = Some(call[p].body["secret"])]
                         ELSE u : u \in users}
            /\ Respond(p, 200, "", Null)
    /\ UNCHANGED <<packages, pkgSeq, tags, tagSeq, download_history, histSeq, foreign_keys,
                   storeVars, now, call, rateLimitStore, loginRateLimitStore, admitted>>


\* Largest number of login requests in one behaviour of SpecLimit.
MaxLogins == 7
\* Largest number of login requests in one behaviour of SpecLogin.
MaxAttempts == 3

Alice == <<"a", "l", "i", "c", "e">>
Password1 == <<"p", "w", "1", "!">>
Secret1 == <<"J", "B", "S", "W">>
Secret2 == <<"K", "R", "U", "G">>

\* A row of users, with the 2FA columns when the table has them.
UserRow(id, role, username, password, twoFactor) ==
    LET row == [id |-> id, role |-> role, username |-> username,
                password_hash |-> hashPassword(password)]
    IN  IF twoFactor
        THEN row @@ [two_factor_enabled |-> 0, two_factor_secret |-> Null]
        ELSE row

\* The server has started on a database with a registered developer, whose
\* users table has the 2FA columns or not.
InitLogin ==
    /\ packages = {}
    /\ pkgSeq = 0
    /\ tags = {[id |-> 1, name |-> <<"M", "a", "p", "s">>, slug |-> <<"m", "a", "p", "s">>]}
    /\ tagSeq = 1
    /\ \E twoFactor \in BOOLEAN :
         /\ schema = IF twoFactor THEN CurrentSchema \cup TwoFactorColumns ELSE CurrentSchema
         /\ users = {UserRow(Developer1, "developer", Alice, Password1, twoFactor)}
    /\ download_history = {}
    /\ histSeq = 0
    /\ foreign_keys = FALSE
    /\ package_tags = {}
    /\ boot = Started
    /\ rateLimitStore = <<>>
    /\ loginRateLimitStore = <<>>
    /\ admitted = <<>>
    /\ addonDirs = {}
    /\ addonFiles = {}
    /\ iconFiles = {}
    /\ now = 0
    /\ pc = [p \in Procs |-> "idle"]
    /\ call = [p \in Procs |-> Idle]
    /\ result = [p \in Procs |-> NoResult]
    /\ wrote = [p \in Procs |-> FALSE]
    /\ recorded = [k \in Ids \X Days |-> 0]
    /\ calls = 0

LoginFrom(ip, body) == [ip |-> ip, body |-> body]

\* Logins of alice with her password and no code, a code of her secret for
\* the first step or for step 30, a code of another secret; with a wrong
\* password; of nobody; without a user name.
LoginRequests ==
    { LoginFrom("10.0.0.1", [username |-> Alice, password |-> Password1]),
      LoginFrom("10.0.0.1", [username |-> Alice, password |-> Password1,
                             totpCode |-> TotpCode(Secret1, 0)]),
      LoginFrom("10.0.0.1", [username |-> Alice, password |-> Password1,
                             totpCode |-> TotpCode(Secret1, 30)]),
      LoginFrom("10.0.0.1", [username |-> Alice, password |-> Password1,
                             totpCode |-> TotpCode(Secret2, 0)]),
      LoginFrom("10.0.0.1", [username |-> Alice, password |-> <<"p", "w">>,
                             totpCode |-> TotpCode(Secret1, 0)]),
      LoginFrom("10.0.0.2", [username |-> <<"b", "o", "b">>, password |-> Password1]),
      LoginFrom("10.0.0.2", [password |-> Password1]) }

EnableRequests ==
    { Request(Developer1, [secret |-> Secret1, token |-> TotpCode(Secret1, 0)]),
      Request(Developer1, [secret |-> Secret1, token |-> TotpCode(Secret1, 30)]),
      Request(0, [secret |-> Secret1, token |-> TotpCode(Secret1, 0)]) }

\* The login requests started so far: each one passed the general limiter.
Logins == AdmittedIn(admitted, "general", "10.0.0.1", 0, 2 * LOGIN_RATE_LIMIT_WINDOW)
          + AdmittedIn(admitted, "general", "10.0.0.2", 0, 2 * LOGIN_RATE_LIMIT_WINDOW)

NextLogin ==
    \/ \E p \in Procs : \E r \in LoginRequests :
         Logins < MaxAttempts /\ Handle(p, LoginStart(p, r))
    \/ \E p \in Procs : Handle(p, LoginTurnstile(p))
    \/ \E p \in Procs : Handle(p, LoginGetUser(p))
    \/ \E p \in Procs : Handle(p, LoginCompare(p))
    \/ \E p \in Procs : \E r \in EnableRequests : Handle(p, EnableStart(p, r))
    \/ \E p \in Procs : Handle(p, EnableUpdate(p))
    \/ \E p \in Procs : Step(p, Finish(p))
    \/ now = 0 /\ Elapse(LOGIN_RATE_LIMIT_WINDOW - 1)
    \/ CleanUp

SpecLogin == InitLogin /\ [][NextLogin]_vars

\* Logins of alice and of nobody, from two addresses.
LimitRequests ==
    { LoginFrom("10.0.0.1", [username |-> Alice, password |-> Password1]),
      LoginFrom("10.0.0.2", [username |-> <<"b", "o", "b">>, password |-> Password1]) }

NextLimit ==
    \/ \E p \in Procs : \E r \in LimitRequests :
         Logins < MaxLogins /\ Handle(p, LoginStart(p, r))
    \/ \E p \in Procs : Handle(p, LoginTurnstile(p))
    \/ \E p \in Procs : Handle(p, LoginGetUser(p))
    \/ \E p \in Procs : Handle(p, LoginCompare(p))
    \/ \E p \in Procs : Step(p, Finish(p))
    \/ now = 0 /\ Elapse(LOGIN_RATE_LIMIT_WINDOW - 1)
    \/ now = LOGIN_RATE_LIMIT_WINDOW - 1 /\ Elapse(2)
    \/ CleanUp

SpecLimit == InitLogin /\ [][NextLimit]_vars

\* C27: the login limiter lets at most 5 attempts of one client IP through
\* in any interval of 15 minutes.
C27_FivePerQuarterHour ==
    \A e \in DOMAIN admitted :
      e.store = "login" =>
        AdmittedIn(admitted, "login", e.ip, e.at, 15 * 60 * 1000) <= 5

\* The login of p is answered, for the row of users it read.
LoginAnswers(p) ==
    /\ pc[p] = "l_compare" /\ pc'[p] = "done"
    /\ TwoFactorEnabled(call[p].user[1])

\* C29: a login that read a user with 2FA enabled is answered with a token
\* only when the password matches the stored hash and the request carries a
\* code that verify2FAToken accepts for the stored secret; with the right
\* password and no code it is answered '2FA required', without a token.
C29_TokenNeedsPasswordAndCode ==
    [][\A p \in Procs :
         LoginAnswers(p) =>
           LET user == call[p].user[1]
               body == call[p].body
               matches == comparePassword(body["password"], user.password_hash)
           IN  /\ result'[p].data # Null =>
                    /\ matches
                    /\ Truthy(body, "totpCode")
                    /\ user.two_factor_secret # Null
                    /\ verify2FAToken(body["totpCode"], user.two_factor_secret[1], now)
               /\ (matches /\ ~Truthy(body, "totpCode")) =>
                    /\ result'[p].error = "2FA required"
                    /\ result'[p].data = Null]_vars

\* A login of a user with 2FA enabled has been answered with a token.
C29_Witness ==
    \E p \in Procs :
      /\ pc[p] = "done" /\ call[p].op = "login"
      /\ call[p].user # Null /\ TwoFactorEnabled(call[p].user[1])
      /\ result[p].status = 200 /\ result[p].data # Null


\* Process p starts a login.
LoginStarts(p) == pc[p] = "idle" /\ call'[p].op = "login"

\* The login limiter holds an entry of ip that has not expired and has
\* counted its 5 attempts.
WindowFull(ip) ==
    /\ ip \in DOMAIN loginRateLimitStore
    /\ now <= loginRateLimitStore[ip].resetTime
    /\ loginRateLimitStore[ip].count >= LOGIN_RATE_LIMIT_MAX

\* The attempts the login limiter let through.
PassedLogins(log) == [e \in {x \in DOMAIN log : x.store = "login"} |-> log[e]]

\* C27, amended: in one window of the login limiter, from the first attempt
\* it counts to the reset time 15 minutes later, at most 5 attempts of a
\* client IP pass, the entry counting each one; an attempt made while the
\* window is full is answered 429 at once, before any user is looked up.
C27_FivePerWindow ==
    [][/\ \A ip \in DOMAIN loginRateLimitStore' :
            LET entry == loginRateLimitStore'[ip]
            IN  /\ entry.count <= LOGIN_RATE_LIMIT_MAX
                /\ AdmittedIn(admitted', "login", ip,
                              entry.resetTime - LOGIN_RATE_LIMIT_WINDOW,
                              LOGIN_RATE_LIMIT_WINDOW + 1) = entry.count
       /\ \A p \in Procs :
            (LoginStarts(p) /\ WindowFull(call'[p].ip)) =>
               /\ pc'[p] = "done"
               /\ result'[p].status = 429
               /\ call'[p].user = Null
               /\ PassedLogins(admitted') = PassedLogins(admitted)]_vars

\* A sixth attempt in a window has been answered 429 while the entry of its
\* address stands at 5.
C27_Witness ==
    \E p \in Procs :
      /\ pc[p] = "done" /\ call[p].op = "login" /\ result[p].status = 429
      /\ call[p].ip \in DOMAIN loginRateLimitStore
      /\ loginRateLimitStore[call[p].ip].count = LOGIN_RATE_LIMIT_MAX


---------------------------------------------------------------------------
(* PUT /admin/users/:userId/role, and who may create a package *)

getAdminCount == Cardinality({u \in users : u.role = "admin"})

\* updateUserRole(userId, newRole): the rows after the UPDATE.
DB_updateUserRole(rows, userId, newRole) ==
    {IF u.id = userId THEN [u EXCEPT !.role = newRole] ELSE u : u \in rows}

\* Token, then the role of the sender as the database has it now.
\* r = [actor, id, body].
RoleStart(p, r) ==
    /\ pc[p] = "idle"
    /\ call' = [call EXCEPT ![p] = [op |-> "role", actor |-> r.actor, id |-> r.id,
                                    body |-> r.body]]
    /\ LET currentUser == getUserById(r.actor)
       IN  IF NoToken(r) THEN Respond(p, 401, "Unauthorized", Null)
           ELSE IF currentUser = Null \/ currentUser[1].role # "admin"
           THEN Respond(p, 403, "Forbidden: Only admins can change user roles", Null)
           ELSE Goto(p, "r_target")
    /\ UNCHANGED <<catalogVars, storeVars, now>>

\* getUserById(targetUserId), then the checks of the new role.
RoleTarget(p) ==
    /\ pc[p] = "r_target"
    /\ LET targetUser == getUserById(call[p].id)
           body == call[p].body
       IN  IF targetUser = Null THEN Respond(p, 404, "User not found", Null)
           ELSE IF "role" \notin DOMAIN body THEN Respond(p, 400, "Role is required", Null)
           ELSE IF body["role"] \notin {"user", "developer", "admin"}
           THEN Respond(p, 400, "Invalid role", Null)
           ELSE IF targetUser[1].role = "admin" /\ body["role"] # "admin"
           THEN Goto(p, "r_count")
           ELSE Goto(p, "r_update")
    /\ UNCHANGED <<catalogVars, storeVars, now, call>>

\* getAdminCount(): the last admin is not demoted.
RoleCount(p) ==
    /\ pc[p] = "r_count"
    /\ IF getAdminCount <= 1 THEN Respond(p, 400, "Cannot demote the last admin", Null)
       ELSE Goto(p, "r_update")
    /\ UNCHANGED <<catalogVars, storeVars, now, call>>

\* updateUserRole(targetUserId, newRole) and the answer from its row.
RoleUpdate(p) ==
    /\ pc[p] = "r_update"
    /\ users' = DB_updateUserRole(users, call[p].id, call[p].body["role"])
    /\ IF getUserById(call[p].id) = Null
       THEN Respond(p, 500, "Failed to update user role", Null)
       ELSE Respond(p, 200, "", Null)
    /\ UNCHANGED <<packages, pkgSeq, tags, tagSeq, download_history, histSeq, foreign_keys,
                   storeVars, now, call>>

AuthCreateRequests ==
    { Request(0, [name |-> NameA, fileBase64 |-> Archive]),
      Request(Developer1, [name |-> NameA, fileBase64 |-> Archive]),
      Request(Developer2, [name |-> NameB, fileBase64 |-> Archive]) }

RoleRequests ==
    { RequestOn(Admin, Developer2, [role |-> "user"]),
      RequestOn(Admin, Developer2, [role |-> "developer"]),
      RequestOn(Admin, Admin, [role |-> "user"]),
      RequestOn(Developer1, Developer2, [role |-> "admin"]),
      RequestOn(Admin, Developer1, [role |-> "owner"]) }

NextAuth ==
    \/ \E p \in Procs : \E r \in AuthCreateRequests : Step(p, CreateStart(p, r))
    \/ \E p \in Procs : Step(p, CreateGetPackage(p))
    \/ \E p \in Procs : Step(p, CreateInsert(p))
    \/ \E p \in Procs : Step(p, CreateSaveAddon(p))
    \/ \E p \in Procs : Step(p, CreateCleanupRow(p))
    \/ \E p \in Procs : Step(p, CreateCleanupIcon(p))
    \/ \E p \in Procs : Step(p, CreateFetch(p))
    \/ \E p \in Procs : \E r \in RoleRequests : Step(p, RoleStart(p, r))
    \/ \E p \in Procs : Step(p, RoleTarget(p))
    \/ \E p \in Procs : Step(p, RoleCount(p))
    \/ \E p \in Procs : Step(p, RoleUpdate(p))
    \/ \E p \in Procs : Step(p, Finish(p))

SpecAuth == Init /\ [][NextAuth]_vars

\* Process p starts a create.
CreateStarts(p) == pc[p] = "idle" /\ call'[p].op = "create"

\* The users row of the sender has, at this moment, neither the role
\* developer nor the role admin (or there is no such row).
NeitherDeveloperNorAdmin(actor) ==
    \A u \in users : u.id = actor => u.role \notin {"developer", "admin"}

\* C30: a create without a valid token is answered 401; one whose sender has
\* at that moment neither the role developer nor the role admin is answered
\* 403; the request is over with that answer, its one step leaves packages
\* and the files as they were, and it is never marked as having written.
C30_CreateNeedsTokenAndRole ==
    [][\A p \in Procs :
         /\ CreateStarts(p) =>
              /\ call'[p].actor = 0 =>
                   /\ pc'[p] = "done" /\ result'[p].status = 401
                   /\ UNCHANGED <<packages, pkgSeq, storeVars>>
              /\ (call'[p].actor # 0 /\ NeitherDeveloperNorAdmin(call'[p].actor)) =>
                   /\ pc'[p] = "done" /\ result'[p].status = 403
                   /\ UNCHANGED <<packages, pkgSeq, storeVars>>
         /\ (pc'[p] = "done" /\ call'[p].op = "create"
               /\ result'[p].status \in {401, 403}) => ~wrote'[p]]_vars

\* A create of a user whose role an admin had changed to user has been
\* answered 403.
C30_Witness ==
    \E p \in Procs :
      /\ pc[p] = "done" /\ call[p].op = "create" /\ result[p].status = 403
      /\ \E u \in users : u.id = call[p].actor /\ u.role = "user"


---------------------------------------------------------------------------
(* POST /auth/register: auth.ts validatePassword and the handler *)

\* The class [!@#$%^&*()_+\-=\[\]{};':"\\|,.<>\/?] of validatePassword.
SpecialCharacters ==
    {"!", "@", "#", "$", "%", "^", "&", "*", "(", ")", "_", "+", "-", "=", "[", "]",
     "{", "}", ";", "'", ":", "\"", "\\", "|", ",", ".", "<", ">", "/", "?"}

\* errors.push(...) when the condition holds.
PushIf(errors, condition, message) ==
    IF condition THEN Append(errors, message) ELSE errors

\* A validatePassword that returns at its first error.
validatePassword_firstError(password) ==
    LET errors ==
          IF Len(password) < 8 THEN <<"Password must be at least 8 characters">>
          ELSE IF ~\E i \in 1..Len(password) : password[i] \in Digits
          THEN <<"Password must contain at least one number">>
          ELSE IF ~\E i \in 1..Len(password) : password[i] \in SpecialCharacters
          THEN <<"Password must contain at least one special character">>
          ELSE <<>>
    IN  [valid |-> Len(errors) = 0, errors |-> errors]

validatePassword(password) ==
    LET e1 == PushIf(<<>>, Len(password) < 8, "Password must be at least 8 characters")
        e2 == PushIf(e1, ~\E i \in 1..Len(password) : password[i] \in Digits,
                     "Password must contain at least one number")
        e3 == PushIf(e2, ~\E i \in 1..Len(password) : password[i] \in SpecialCharacters,
                     "Password must contain at least one special character")
    IN  [valid |-> Len(e3) = 0, errors |-> e3]

\* USERNAME_REGEX = /^[a-zA-Z0-9_-]{3,32}$/
USERNAME_REGEX(username) ==
    /\ Len(username) >= 3
    /\ Len(username) <= 32
    /\ \A i \in 1..Len(username) : username[i] \in Letters \cup Digits \cup {"_", "-"}

validateUsername(username) ==
    IF username = EmptyString \/ Len(username) < 3 THEN FALSE
    ELSE IF Len(username) > 32 THEN FALSE
    ELSE USERNAME_REGEX(username)

\* EMAIL_REGEX = /^[^\s@]+@[^\s@]+\.[^\s@]+$/
EMAIL_REGEX(email) ==
    \E at \in 1..Len(email) :
      /\ email[at] = "@"
      /\ at > 1
      /\ \A i \in 1..Len(email) : email[i] \notin {" ", "\t", "\n"} /\ (email[i] = "@" => i = at)
      /\ \E dot \in (at + 2)..(Len(email) - 1) : email[dot] = "."

validateEmail(email) ==
    IF email = EmptyString THEN FALSE
    ELSE IF ~EMAIL_REGEX(email) THEN FALSE
    ELSE IF Len(email) > 255 THEN FALSE
    ELSE TRUE

getUserByEmail(email) == First({u \in users : u.email = email})

\* INSERT INTO users (username, email, password_hash, role): the rows after
\* it, or null when a UNIQUE constraint (username, email) refuses the row.
\* The id is the next of the table's ids.
DB_createUser(rows, username, email, passwordHash, role) ==
    IF \E u \in rows : u.username = username \/ u.email = email THEN Null
    ELSE Some(rows \cup {[id |-> Max({0} \cup {u.id : u \in rows}) + 1, role |-> role,
                          username |-> username, email |-> email,
                          password_hash |-> passwordHash]})

\* The register handler up to its first await.  r = [body].
RegisterStart(p, r) ==
    /\ pc[p] = "idle"
    /\ call' = [call EXCEPT ![p] = [op |-> "register", body |-> r.body]]
    /\ Goto(p, "g_turnstile")
    /\ UNCHANGED <<catalogVars, storeVars, now>>

\* await verifyTurnstile(turnstileToken, ip), which the CAPTCHA service
\* decides, then the checks of the inputs.
RegisterTurnstile(p) ==
    /\ pc[p] = "g_turnstile"
    /\ LET body == call[p].body
       IN  \E success \in BOOLEAN :
             IF ~success THEN Respond(p, 400, "CAPTCHA verification failed", Null)
             ELSE IF ~Truthy(body, "username") \/ ~Truthy(body, "email")
                     \/ ~Truthy(body, "password")
             THEN Respond(p, 400, "Username, email, and password are required", Null)
             ELSE IF ~validateUsername(body["username"])
             THEN Respond(p, 400, "Invalid username", Null)
             ELSE IF ~validateEmail(body["email"])
             THEN Respond(p, 400, "Invalid email", Null)
             ELSE IF ~validatePassword(body["password"]).valid
             THEN Respond(p, 400, "Password does not meet requirements",
                          Some([details |-> validatePassword(body["password"]).errors]))
             ELSE Goto(p, "g_getUser")
    /\ UNCHANGED <<catalogVars, storeVars, now, call>>

\* await database.getUser(username)
RegisterGetUser(p) ==
    /\ pc[p] = "g_getUser"
    /\ IF getUser(call[p].body["username"]) # Null
       THEN Respond(p, 409, "Username already exists", Null)
       ELSE Goto(p, "g_getEmail")
    /\ UNCHANGED <<catalogVars, storeVars, now, call>>

\* await database.getUserByEmail(email)
RegisterGetEmail(p) ==
    /\ pc[p] = "g_getEmail"
    /\ IF getUserByEmail(call[p].body["email"]) # Null
       THEN Respond(p, 409, "Email already exists", Null)
       ELSE Goto(p, "g_create")
    /\ UNCHANGED <<catalogVars, storeVars, now, call>>

\* await hashPassword(password), await database.createUser(...) and the
\* response; a refused INSERT is caught and answered 500.
RegisterCreate(p) ==
    /\ pc[p] = "g_create"
    /\ LET body == call[p].body
           created == DB_createUser(users, body["username"], body["email"],
                                    hashPassword(body["password"]), "user")
       IN  IF created = Null
           THEN Respond(p, 500, "Failed to register user", Null) /\ UNCHANGED users
           ELSE Respond(p, 201, "", Some([username |-> body["username"]]))
                /\ users' = created[1]
    /\ UNCHANGED <<packages, pkgSeq, tags, tagSeq, download_history, histSeq, foreign_keys,
                   storeVars, now, call>>

Bob == <<"b", "o", "b">>
EmailA == <<"a", "@", "b", ".", "c">>
EmailB == <<"b", "@", "b", ".", "c">>
StrongPassword == <<"P", "a", "s", "s", "w", "0", "r", "d", "!">>

\* The passwords of the registrations: nothing, five or six letters, then up
\* to two of a letter, a digit and a special character.
Endings == {<<>>} \cup {<<c>> : c \in {"a", "1", "!"}}
             \cup {<<c, d>> : c, d \in {"a", "1", "!"}}
Passwords ==
    {pad \o e : pad \in {<<>>, <<"a", "a", "a", "a", "a">>,
                         <<"a", "a", "a", "a", "a", "a">>}, e \in Endings}

Registration(username, email, password) ==
    [body |-> [username |-> username, email |-> email, password |-> password]]

RegisterRequests ==
    {Registration(Bob, EmailB, password) : password \in Passwords}
      \cup { Registration(Bob, EmailA, StrongPassword),
             Registration(Alice, EmailB, StrongPassword),
             Registration(<<"b", "o">>, EmailB, StrongPassword),
             Registration(Bob, <<"b", "@", "b">>, StrongPassword) }

\* The server has started on a database with one registered user.
InitRegister ==
    /\ packages = {}
    /\ pkgSeq = 0
    /\ tags = {[id |-> 1, name |-> <<"M", "a", "p", "s">>, slug |-> <<"m", "a", "p", "s">>]}
    /\ tagSeq = 1
    /\ users = {[id |-> Developer1, role |-> "developer", username |-> Alice,
                 email |-> EmailA, password_hash |-> hashPassword(Password1)]}
    /\ download_history = {}
    /\ histSeq = 0
    /\ foreign_keys = FALSE
    /\ schema = CurrentSchema
    /\ package_tags = {}
    /\ boot = Started
    /\ rateLimitStore = <<>>
    /\ loginRateLimitStore = <<>>
    /\ admitted = <<>>
    /\ addonDirs = {}
    /\ addonFiles = {}
    /\ iconFiles = {}
    /\ now = 0
    /\ pc = [p \in Procs |-> "idle"]
    /\ call = [p \in Procs |-> Idle]
    /\ result = [p \in Procs |-> NoResult]
    /\ wrote = [p \in Procs |-> FALSE]
    /\ recorded = [k \in Ids \X Days |-> 0]
    /\ calls = 0

NextRegister ==
    \/ \E p \in Procs : \E r \in RegisterRequests : Step(p, RegisterStart(p, r))
    \/ \E p \in Procs : Step(p, RegisterTurnstile(p))
    \/ \E p \in Procs : Step(p, RegisterGetUser(p))
    \/ \E p \in Procs : Step(p, RegisterGetEmail(p))
    \/ \E p \in Procs : Step(p, RegisterCreate(p))
    \/ \E p \in Procs : Step(p, Finish(p))

SpecRegister == InitRegister /\ [][NextRegister]_vars

\* The requirements the password violates.
TooShort(password) == Len(password) < 8
NoDigit(password) == \A i \in 1..Len(password) : password[i] \notin Digits
NoSpecial(password) == \A i \in 1..Len(password) : password[i] \notin SpecialCharacters
Violations(password) ==
    (IF TooShort(password) THEN {"Password must be at least 8 characters"} ELSE {})
      \cup (IF NoDigit(password) THEN {"Password must contain at least one number"} ELSE {})
      \cup (IF NoSpecial(password)
            THEN {"Password must contain at least one special character"} ELSE {})

\* Process p has a registration in hand whose password is there.
Registers(p) == call[p].op = "register" /\ "password" \in DOMAIN call[p].body

\* C31: validatePassword is valid exactly when its list of errors is empty,
\* and the list holds one error for each requirement the password violates
\* and nothing else; a registration whose password is too short, has no
\* digit or has no special character is answered 400, and the only step that
\* changes users is the INSERT of a registration whose password violates
\* nothing.
C31_WeakPasswordRejected ==
    [][\A p \in Procs :
         Registers(p) =>
           LET password == call[p].body["password"]
               v == validatePassword(password)
           IN  /\ v.valid <=> (v.errors = <<>>)
               /\ Len(v.errors) = Cardinality(Violations(password))
               /\ {v.errors[i] : i \in 1..Len(v.errors)} = Violations(password)
               /\ (Violations(password) # {} /\ pc[p] # "done" /\ pc'[p] = "done") =>
                    result'[p].status = 400
               /\ (Violations(password) # {} /\ pc'[p] # pc[p]) => users' = users]_vars

\* A registration whose password has eight characters and a special
\* character but no digit has been answered 400 with that one error.
C31_Witness ==
    \E p \in Procs :
      /\ Registers(p) /\ pc[p] = "done" /\ result[p].status = 400
      /\ Len(call[p].body["password"]) = 8
      /\ result[p].data # Null
      /\ result[p].data[1].details = <<"Password must contain at least one number">>


---------------------------------------------------------------------------
(* The three checks of the archive's signature *)

\* Buffers around the signature 50 4B 03 04: nothing, its first three
\* bytes, the signature alone and followed by a byte, the signature with one
\* byte zeroed or its last two swapped, the signature after a byte, and a PNG.
ArchiveBuffers ==
    {Buffer(n, SubSeq(<<80, 75, 3, 4>>, 1, n)) : n \in {0, 3, 4}}
      \cup {Buffer(4, [<<80, 75, 3, 4>> EXCEPT ![i] = 0]) : i \in 1..4}
      \cup { Buffer(5, <<80, 75, 3, 4, 20>>),
             Buffer(4, <<80, 75, 4, 3>>),
             Buffer(5, <<0, 80, 75, 3, 4>>),
             Buffer(8, <<137, 80, 78, 71, 13>>) }

ArchiveCreateRequests ==
    { Request(Developer1, [name |-> NameA, fileBase64 |-> b]) : b \in ArchiveBuffers }
ArchiveUpdateRequests ==
    { RequestOn(Developer1, 1, [fileBase64 |-> b]) : b \in ArchiveBuffers }
ArchiveSaveRequests ==
    { [id |-> 2, name |-> NameB, bytes |-> b] : b \in ArchiveBuffers }

NextArchive ==
    \/ \E p \in Procs : \E r \in ArchiveCreateRequests : Step(p, CreateStart(p, r))
    \/ \E p \in Procs : Step(p, CreateGetPackage(p))
    \/ \E p \in Procs : Step(p, CreateInsert(p))
    \/ \E p \in Procs : Step(p, CreateSaveAddon(p))
    \/ \E p \in Procs : Step(p, CreateCleanupRow(p))
    \/ \E p \in Procs : Step(p, CreateCleanupIcon(p))
    \/ \E p \in Procs : Step(p, CreateFetch(p))
    \/ \E p \in Procs : \E r \in ArchiveUpdateRequests : Step(p, UpdateStart(p, r))
    \/ \E p \in Procs : Step(p, UpdateDeleteAddon(p))
    \/ \E p \in Procs : Step(p, UpdateSaveAddon(p))
    \/ \E p \in Procs : Step(p, UpdateDbSelect(p))
    \/ \E p \in Procs : Step(p, UpdateDbUpdate(p))
    \/ \E p \in Procs : Step(p, UpdateFetch(p))
    \/ \E p \in Procs : \E r \in ArchiveSaveRequests : Step(p, StoreSaveAddon(p, r, "none"))
    \/ \E p \in Procs : Step(p, StoreSaveAddonWrite(p, "none"))
    \/ \E p \in Procs : Step(p, Finish(p))

SpecArchive == Init /\ [][NextArchive]_vars

\* The buffer has at least four bytes and starts with 50 4B 03 04.
ZipSignature(b) == b.size >= 4 /\ SubSeq(b.head, 1, 4) = <<80, 75, 3, 4>>

\* The response of process p at this step is the rejection of the format.
RejectsFormat(p) ==
    /\ pc'[p] = "done"
    /\ result'[p].status = 400
    /\ result'[p].error = "Invalid file format"

\* C32: validateMcaddonFile is true of a buffer exactly when it has four
\* bytes or more and begins with 50 4B 03 04; a create, and an update of a
\* package of the sender, that fail no earlier check reject the format of
\* exactly the buffers of which it is false, and so does saveAddon raise at
\* its check.
C32_SameBuffersAccepted ==
    [][\A p \in Procs :
         /\ CreateStarts(p) =>
              LET b == call'[p].body["fileBase64"]
              IN  /\ validateMcaddonFile(b) <=> ZipSignature(b)
                  /\ RejectsFormat(p) <=> ~ZipSignature(b)
         /\ (pc[p] = "idle" /\ call'[p].op = "update"
               /\ SelectPackageById(call'[p].packageId) # Null) =>
              LET b == call'[p].body["fileBase64"]
              IN  RejectsFormat(p) <=> ~ZipSignature(b)
         /\ (pc[p] = "idle" /\ call'[p].op = "saveAddon") =>
              LET b == call'[p].fileBuffer
              IN  (pc'[p] = "done" /\ result'[p].error = "threw") <=> ~ZipSignature(b)]_vars

\* A create and an update have rejected the format of a buffer of four bytes
\* or more, and a saveAddon has raised on one.
C32_Witness ==
    \E p, q \in Procs :
      /\ pc[p] = "done" /\ call[p].op \in {"create", "update"}
      /\ result[p].error = "Invalid file format"
      /\ call[p].body["fileBase64"].size >= 4
      /\ pc[q] = "done" /\ call[q].op = "saveAddon" /\ result[q].error = "threw"
      /\ call[q].fileBuffer.size >= 4


---------------------------------------------------------------------------
(* The type of an icon *)

\* A buffer that is the bytes b.
Bytes(b) == Buffer(Len(b), b)

SvgTag == <<60, 115, 118, 103>>
XmlDeclaration == <<60, 63, 120, 109, 108>>
\* n letters a.
Filler(n) == [i \in 1..n |-> 97]

\* Icons of each type, icons that carry two signatures, signatures cut short
\* or one byte off, and markers of SVG around the end of the first 1024 bytes.
TypedIcons ==
    { Png, Gif, NoImage,
      Bytes(<<137, 80, 78, 0>>),
      Bytes(<<137, 80, 78, 71>> \o SvgTag),
      Bytes(<<255, 216, 255>>),
      Bytes(<<255, 216, 255, 224>>),
      Bytes(<<255, 216, 255>> \o SvgTag),
      Bytes(<<255, 216, 0, 0>>),
      Bytes(<<82, 73, 70, 70, 0, 0, 0, 0, 87, 69, 66, 80>>),
      Bytes(<<82, 73, 70, 70, 0, 0, 0, 0, 87, 69, 66, 80>> \o SvgTag),
      Bytes(<<82, 73, 70, 70, 0, 0, 0, 0, 87, 69, 66>>),
      Bytes(<<82, 73, 70, 70, 0, 0, 0, 0, 87, 65, 86, 69>>),
      Bytes(<<71, 73, 70, 56>> \o SvgTag),
      Bytes(<<60, 115, 118>>),
      Bytes(SvgTag \o <<62>>),
      Bytes(<<32, 10>> \o XmlDeclaration),
      Bytes(<<97>> \o XmlDeclaration),
      Bytes(<<97, 98>> \o SvgTag),
      Bytes(Filler(1020) \o SvgTag),
      Bytes(Filler(1021) \o SvgTag) }

TypedIconRequests == { [id |-> 1, bytes |-> b] : b \in TypedIcons }

NextIconType ==
    \/ \E p \in Procs : \E r \in TypedIconRequests : Step(p, StoreSaveIcon(p, r))
    \/ \E p \in Procs : \E fault \in {"none", "write"} : Step(p, StoreSaveIconWrite(p, fault))
    \/ \E p \in Procs : \E id \in StoreDeleteIconRequests : Step(p, StoreDeleteIcon(p, id))
    \/ \E p \in Procs : Step(p, Finish(p))

SpecIconType == Init /\ [][NextIconType]_vars

\* The first 1024 bytes as text, trimmed.
Sniffed(b) == TrimStart(SubSeq(b, 1, IF Len(b) < 1024 THEN Len(b) ELSE 1024))

\* Rule i of the five matches the bytes b.
RuleMatches(i, b) ==
    CASE i = 1 -> StartsWith(b, <<137, 80, 78, 71>>)
      [] i = 2 -> StartsWith(b, <<255, 216, 255>>)
      [] i = 3 -> /\ StartsWith(b, <<82, 73, 70, 70>>)
                  /\ Len(b) >= 12 /\ SubSeq(b, 9, 12) = <<87, 69, 66, 80>>
      [] i = 4 -> StartsWith(b, <<71, 73, 70, 56>>)
      [] i = 5 -> StartsWith(Sniffed(b), XmlDeclaration) \/ Includes(Sniffed(b), SvgTag)

MimeTypes == <<"image/png", "image/jpeg", "image/webp", "image/gif", "image/svg+xml">>

\* What the first rule that matches gives, or invalid when none does.
FirstMatch(b) ==
    LET matching == {i \in 1..5 : RuleMatches(i, b)}
    IN  IF matching = {} THEN [valid |-> FALSE, mimeType |-> Null, extension |-> Null]
        ELSE LET i == CHOOSE j \in matching : \A k \in matching : j <= k
             IN  [valid |-> TRUE, mimeType |-> Some(MimeTypes[i]),
                  extension |-> Some(IconExtensions[i])]

\* The buffers of the saveIcon calls in hand.
IconsInHand == {call[p].iconBuffer : p \in {q \in Procs : call[q].op = "saveIcon"}}

\* C33 as stated: validateIconType gives every buffer the type of the first
\* of the rules PNG, JPEG, WebP, GIF, SVG text that matches it, and calls a
\* buffer that matches none invalid.
C33_FirstMatchingRule ==
    \A buffer \in IconsInHand : validateIconType(buffer) = FirstMatch(buffer.head)

\* C33: validateIconType gives a buffer of four bytes or more the type of
\* the first of the rules PNG, JPEG, WebP, GIF, SVG text that matches it, and
\* calls it invalid when none matches; a buffer of fewer than four bytes is
\* invalid whatever it holds.
C33_FirstMatchingRuleOfFourBytes ==
    \A buffer \in IconsInHand :
      /\ buffer.size >= 4 => validateIconType(buffer) = FirstMatch(buffer.head)
      /\ buffer.size < 4 => ~validateIconType(buffer).valid

\* A saveIcon of a buffer that begins as a GIF and holds the marker of SVG
\* has returned the URL of a gif.
C33_Witness ==
    \E p \in Procs :
      /\ pc[p] = "done" /\ call[p].op = "saveIcon"
      /\ RuleMatches(4, call[p].iconBuffer.head) /\ RuleMatches(5, call[p].iconBuffer.head)
      /\ result[p].data = Some(IconUrl(call[p].packageId, "gif"))


---------------------------------------------------------------------------
(* sanitizeSvg applied to what it returned *)

\* SVG icons with the constructs sanitizeSvg removes: each class alone, one
\* inside another, and one written into the name of another.
\* <svg><script>alert(1)</script></svg>
SvgScript ==
    Bytes(<<60, 115, 118, 103, 62, 60, 115, 99, 114, 105, 112, 116, 62, 97, 108, 101, 114,
          116, 40, 49, 41, 60, 47, 115, 99, 114, 105, 112, 116, 62, 60, 47, 115,
          118, 103, 62>>)
\* <svg onload="alert(1)"><rect onclick=x()/></svg>
SvgHandlers ==
    Bytes(<<60, 115, 118, 103, 32, 111, 110, 108, 111, 97, 100, 61, 34, 97, 108, 101, 114,
          116, 40, 49, 41, 34, 62, 60, 114, 101, 99, 116, 32, 111, 110, 99, 108,
          105, 99, 107, 61, 120, 40, 41, 47, 62, 60, 47, 115, 118, 103, 62>>)
\* <svg><a href="javascript:alert(1)">x</a></svg>
SvgJavascriptHref ==
    Bytes(<<60, 115, 118, 103, 62, 60, 97, 32, 104, 114, 101, 102, 61, 34, 106, 97, 118, 97,
          115, 99, 114, 105, 112, 116, 58, 97, 108, 101, 114, 116, 40, 49, 41, 34,
          62, 120, 60, 47, 97, 62, 60, 47, 115, 118, 103, 62>>)
\* <svg><a href="data:text/html,x"/><image href="data:image/png,x"/></svg>
SvgDataHrefs ==
    Bytes(<<60, 115, 118, 103, 62, 60, 97, 32, 104, 114, 101, 102, 61, 34, 100, 97, 116, 97,
          58, 116, 101, 120, 116, 47, 104, 116, 109, 108, 44, 120, 34, 47, 62, 60,
          105, 109, 97, 103, 101, 32, 104, 114, 101, 102, 61, 34, 100, 97, 116, 97,
          58, 105, 109, 97, 103, 101, 47, 112, 110, 103, 44, 120, 34, 47, 62, 60,
          47, 115, 118, 103, 62>>)
\* <svg><foreignObject><body/></foreignObject></svg>
SvgForeignObject ==
    Bytes(<<60, 115, 118, 103, 62, 60, 102, 111, 114, 101, 105, 103, 110, 79, 98, 106, 101,
          99, 116, 62, 60, 98, 111, 100, 121, 47, 62, 60, 47, 102, 111, 114, 101,
          105, 103, 110, 79, 98, 106, 101, 99, 116, 62, 60, 47, 115, 118, 103, 62>>)
\* <svg><use xlink:href="http://e/x.svg#a"/><use xlink:href="#a"/></svg>
SvgUses ==
    Bytes(<<60, 115, 118, 103, 62, 60, 117, 115, 101, 32, 120, 108, 105, 110, 107, 58, 104,
          114, 101, 102, 61, 34, 104, 116, 116, 112, 58, 47, 47, 101, 47, 120, 46,
          115, 118, 103, 35, 97, 34, 47, 62, 60, 117, 115, 101, 32, 120, 108, 105,
          110, 107, 58, 104, 114, 101, 102, 61, 34, 35, 97, 34, 47, 62, 60, 47, 115,
          118, 103, 62>>)
\* <svg><iframe src="x"></iframe><embed src="y"/></svg>
SvgFrames ==
    Bytes(<<60, 115, 118, 103, 62, 60, 105, 102, 114, 97, 109, 101, 32, 115, 114, 99, 61, 34,
          120, 34, 62, 60, 47, 105, 102, 114, 97, 109, 101, 62, 60, 101, 109, 98,
          101, 100, 32, 115, 114, 99, 61, 34, 121, 34, 47, 62, 60, 47, 115, 118,
          103, 62>>)
\* <svg><set to="1" onbegin="a()"/><animate onend=a /></svg>
SvgAnimations ==
    Bytes(<<60, 115, 118, 103, 62, 60, 115, 101, 116, 32, 116, 111, 61, 34, 49, 34, 32, 111,
          110, 98, 101, 103, 105, 110, 61, 34, 97, 40, 41, 34, 47, 62, 60, 97, 110,
          105, 109, 97, 116, 101, 32, 111, 110, 101, 110, 100, 61, 97, 32, 47, 62,
          60, 47, 115, 118, 103, 62>>)
\* <svg onload="a"><object><script>a</script></object></svg>
SvgScriptInFrame ==
    Bytes(<<60, 115, 118, 103, 32, 111, 110, 108, 111, 97, 100, 61, 34, 97, 34, 62, 60, 111,
          98, 106, 101, 99, 116, 62, 60, 115, 99, 114, 105, 112, 116, 62, 97, 60,
          47, 115, 99, 114, 105, 112, 116, 62, 60, 47, 111, 98, 106, 101, 99, 116,
          62, 60, 47, 115, 118, 103, 62>>)
\* <svg><scr<script>a</script>ipt>alert(1)</script></svg>
SvgScriptInScriptTag ==
    Bytes(<<60, 115, 118, 103, 62, 60, 115, 99, 114, 60, 115, 99, 114, 105, 112, 116, 62, 97,
          60, 47, 115, 99, 114, 105, 112, 116, 62, 105, 112, 116, 62, 97, 108, 101,
          114, 116, 40, 49, 41, 60, 47, 115, 99, 114, 105, 112, 116, 62, 60, 47,
          115, 118, 103, 62>>)
\* <svg on<iframe></iframe>load="alert(1)"></svg>
SvgFrameInHandler ==
    Bytes(<<60, 115, 118, 103, 32, 111, 110, 60, 105, 102, 114, 97, 109, 101, 62, 60, 47, 105,
          102, 114, 97, 109, 101, 62, 108, 111, 97, 100, 61, 34, 97, 108, 101, 114,
          116, 40, 49, 41, 34, 62, 60, 47, 115, 118, 103, 62>>)
\* <svg><text>a <iframe></iframe>onload="1"</text></svg>
SvgTextAfterFrame ==
    Bytes(<<60, 115, 118, 103, 62, 60, 116, 101, 120, 116, 62, 97, 32, 60, 105, 102, 114, 97,
          109, 101, 62, 60, 47, 105, 102, 114, 97, 109, 101, 62, 111, 110, 108, 111,
          97, 100, 61, 34, 49, 34, 60, 47, 116, 101, 120, 116, 62, 60, 47, 115, 118,
          103, 62>>)

SvgIcons ==
    {SvgScript, SvgHandlers, SvgJavascriptHref, SvgDataHrefs, SvgForeignObject, SvgUses,
     SvgFrames, SvgAnimations, SvgScriptInFrame, SvgScriptInScriptTag, SvgFrameInHandler,
     SvgTextAfterFrame}

SvgIconRequests == { [id |-> 1, bytes |-> b] : b \in SvgIcons }

NextSvg ==
    \/ \E p \in Procs : \E r \in SvgIconRequests : Step(p, StoreSaveIcon(p, r))
    \/ \E p \in Procs : \E fault \in {"none", "write"} : Step(p, StoreSaveIconWrite(p, fault))
    \/ \E p \in Procs : \E id \in StoreDeleteIconRequests : Step(p, StoreDeleteIcon(p, id))
    \/ \E p \in Procs : Step(p, Finish(p))

SpecSvg == Init /\ [][NextSvg]_vars

\* The saveIcon of process p writes its file and returns at this step.
SaveIconReturns(p) ==
    /\ pc[p] = "i_write" /\ pc'[p] = "done"
    /\ result'[p].error # "threw"

\* C34: what sanitizeSvg returns it leaves as it is: the SVG that a saveIcon
\* stores is its own sanitizeSvg.
C34_SanitizedIsFixedPoint ==
    [][\A p \in Procs :
         (SaveIconReturns(p) /\ validateIconType(call[p].iconBuffer).extension = Some("svg")) =>
           \A f \in iconFiles' :
             f.path = IconFilePath(call[p].packageId, "svg") =>
               /\ f.data = sanitizeSvg(call[p].iconBuffer)
               /\ sanitizeSvg(f.data) = f.data]_vars


---------------------------------------------------------------------------
(* The archive of a renamed package *)

RenameCreateRequests ==
    { Request(Developer1, [name |-> NameA, fileBase64 |-> Archive]) }

\* Renames of package 1 by its owner, with a new archive and without one.
RenameUpdateRequests ==
    { RequestOn(Developer1, 1, [name |-> NameB, fileBase64 |-> Archive2]),
      RequestOn(Developer1, 1, [name |-> NameB]),
      RequestOn(Developer1, 1, [name |-> NameA, fileBase64 |-> Archive3]) }

NextRename ==
    \/ \E p \in Procs : \E r \in RenameCreateRequests : Step(p, CreateStart(p, r))
    \/ \E p \in Procs : Step(p, CreateGetPackage(p))
    \/ \E p \in Procs : Step(p, CreateInsert(p))
    \/ \E p \in Procs : Step(p, CreateSaveAddon(p))
    \/ \E p \in Procs : Step(p, CreateCleanupRow(p))
    \/ \E p \in Procs : Step(p, CreateCleanupIcon(p))
    \/ \E p \in Procs : Step(p, CreateFetch(p))
    \/ \E p \in Procs : \E r \in RenameUpdateRequests : Step(p, UpdateStart(p, r))
    \/ \E p \in Procs : Step(p, UpdateGetPackage(p))
    \/ \E p \in Procs : Step(p, UpdateDeleteAddon(p))
    \/ \E p \in Procs : Step(p, UpdateSaveAddon(p))
    \/ \E p \in Procs : Step(p, UpdateDbSelect(p))
    \/ \E p \in Procs : Step(p, UpdateDbUpdate(p))
    \/ \E p \in Procs : Step(p, UpdateFetch(p))
    \/ \E p \in Procs : Step(p, Finish(p))
    \/ Tick

SpecRename == Init /\ [][NextRename]_vars

\* The update of p changes the name of its package.
Renames(p) ==
    /\ call[p].op = "update"
    /\ call[p].packageData # Null
    /\ Truthy(call[p].body, "name")
    /\ call[p].body["name"] # call[p].packageData[1].name

\* What GET /packages/{name}/download streams for the package id under the
\* name, in the state the step leads to, or null.
ArchiveAfter(packageId, name) ==
    LET latest == getLatestAddonFile(addonDirs', addonFiles', packageId, name)
    IN  IF latest = Null THEN Null ELSE getAddonStream(addonFiles', latest[1])

\* The package of p's update has an archive on disk, under the name it had or
\* under the name of the request.
StoredBefore(p) ==
    \E name \in {call[p].packageData[1].name, call[p].body["name"]} :
        getLatestAddonFile(addonDirs, addonFiles, call[p].packageId, name) # Null

\* C35: when an update that changes the name of a package with a stored
\* archive reports success, the latest archive under the new name is the
\* archive of the request when it carried one, and otherwise the archive the
\* package had under its old name.
C35_RenamedPackageHasArchive ==
    [][\A p \in Procs :
         (ReportsSuccess(p) /\ Renames(p) /\ StoredBefore(p)) =>
           LET body == call[p].body
               stream == ArchiveAfter(call[p].packageId, body["name"])
           IN  /\ stream # Null
               /\ "fileBase64" \in DOMAIN body =>
                      stream = Some(body["fileBase64"])]_vars


---------------------------------------------------------------------------
(* What a create that failed after its INSERT leaves on disk *)

\* The step by which a create returns its error after the row was inserted:
\* the end of the catch of the save.
ReturnsErrorAfterInsert(p) ==
    /\ pc[p] = "c_cleanupIcon"
    /\ pc'[p] = "done"
    /\ call[p].op = "create"

\* C36: when a create returns its error after the row was inserted (the save
\* of the archive failed, or the update of the icon URL failed after the
\* archive was saved), no package directory and no archive file of that
\* package id is on disk.
C36_NoArchiveAfterFailedCreate ==
    [][\A p \in Procs :
         ReturnsErrorAfterInsert(p) =>
            /\ DirsOfId(addonDirs', call[p].packageId) = {}
            /\ ArchivesOfId(addonFiles', call[p].packageId) = {}]_vars


---------------------------------------------------------------------------
(* The icon a row names, and the icon on disk *)

\* The icon file an icon URL names is on disk.
IconUrlHasFile(r) ==
    \E i \in 1..Len(IconExtensions) :
        /\ r.icon_url = Some(IconUrl(r.id, IconExtensions[i]))
        /\ \E f \in iconFiles : f.path = IconFilePath(r.id, IconExtensions[i])

\* C37: when no create, update or delete is in progress, the icon_url of
\* every row is null or /icons/{id}.{ext} of an icon file of that id that is
\* on disk.
C37_IconUrlNamesStoredIcon ==
    Quiescent => \A r \in packages : r.icon_url = Null \/ IconUrlHasFile(r)


---------------------------------------------------------------------------
(* A delete and an update of one package at a time *)

ConcurrentCreateRequests ==
    { Request(Developer1, [name |-> NameA, fileBase64 |-> Archive]) }

\* Updates of package 1 by its owner: a new archive, a new icon.
ConcurrentUpdateRequests ==
    { RequestOn(Developer1, 1, [fileBase64 |-> Archive2]),
      RequestOn(Developer1, 1, [iconBase64 |-> Png]) }

ConcurrentDeleteRequests ==
    { [actor |-> Developer1, id |-> 1],
      [actor |-> Admin, id |-> 1] }

NextConcurrent ==
    \/ \E p \in Procs : \E r \in ConcurrentCreateRequests : Step(p, CreateStart(p, r))
    \/ \E p \in Procs : Step(p, CreateGetPackage(p))
    \/ \E p \in Procs : Step(p, CreateInsert(p))
    \/ \E p \in Procs : Step(p, CreateSaveAddon(p))
    \/ \E p \in Procs : Step(p, CreateCleanupRow(p))
    \/ \E p \in Procs : Step(p, CreateCleanupIcon(p))
    \/ \E p \in Procs : Step(p, CreateFetch(p))
    \/ \E p \in Procs : \E r \in ConcurrentUpdateRequests : Step(p, UpdateStart(p, r))
    \/ \E p \in Procs : Step(p, UpdateIconDelete(p))
    \/ \E p \in Procs : Step(p, UpdateSaveIconDelete(p))
    \/ \E p \in Procs : Step(p, UpdateIconWrite(p))
    \/ \E p \in Procs : Step(p, UpdateDeleteAddon(p))
    \/ \E p \in Procs : Step(p, UpdateSaveAddon(p))
    \/ \E p \in Procs : Step(p, UpdateDbSelect(p))
    \/ \E p \in Procs : Step(p, UpdateDbUpdate(p))
    \/ \E p \in Procs : Step(p, UpdateFetch(p))
    \/ \E p \in Procs : \E r \in ConcurrentDeleteRequests : Step(p, DeleteStart(p, r))
    \/ \E p \in Procs : Step(p, DeleteDeleteAddon(p))
    \/ \E p \in Procs : Step(p, DeleteDeleteRow(p))
    \/ \E p \in Procs : Step(p, Finish(p))
    \/ Tick

SpecConcurrent == Init /\ [][NextConcurrent]_vars

\* The delete of p has reported success, and the update q of the same
\* package, with an archive or an icon, returns in this step.
UpdateReturnsAfterDelete(p, q) ==
    /\ pc[p] = "done" /\ call[p].op = "delete" /\ result[p].status = 200
    /\ call[q].op = "update"
    /\ call[q].packageId = call[p].packageId
    /\ \/ "fileBase64" \in DOMAIN call[q].body
       \/ "iconBase64" \in DOMAIN call[q].body
    /\ pc[q] # "done" /\ pc'[q] = "done"

\* C38: when an update with an archive or an icon returns after a delete of
\* the same package has reported success, no package directory and no archive
\* file of that id is on disk and the update does not report success.
C38_NothingLeftAfterDelete ==
    [][\A p, q \in Procs :
         UpdateReturnsAfterDelete(p, q) =>
            /\ DirsOfId(addonDirs', call[p].packageId) = {}
            /\ ArchivesOfId(addonFiles', call[p].packageId) = {}
            /\ result'[q].status # 200]_vars


---------------------------------------------------------------------------
(* DELETE /admin/users/:userId, and the last admin *)

\* removeUser(userId): DELETE FROM users WHERE id = userId.  packages.author_id
\* references users(id): with foreign keys enforced the DELETE of an author
\* raises.
DB_removeUser(rows, userId) ==
    IF foreign_keys /\ \E r \in packages : r.author_id = userId
    THEN [threw |-> TRUE, rows |-> rows]
    ELSE [threw |-> FALSE, rows |-> {u \in rows : u.id # userId}]

\* Token, then the role of the sender as the database has it now.
\* r = [actor, id].
UserDeleteStart(p, r) ==
    /\ pc[p] = "idle"
    /\ call' = [call EXCEPT ![p] = [op |-> "userDelete", actor |-> r.actor, id |-> r.id]]
    /\ LET currentUser == getUserById(r.actor)
       IN  IF NoToken(r) THEN Respond(p, 401, "Unauthorized", Null)
           ELSE IF currentUser = Null \/ currentUser[1].role # "admin"
           THEN Respond(p, 403, "Forbidden: Only admins can delete users", Null)
           ELSE Goto(p, "x_target")
    /\ UNCHANGED <<catalogVars, storeVars, now>>

\* getUserById(targetUserId).
UserDeleteTarget(p) ==
    /\ pc[p] = "x_target"
    /\ LET targetUser == getUserById(call[p].id)
       IN  IF targetUser = Null THEN Respond(p, 404, "User not found", Null)
           ELSE IF targetUser[1].role = "admin" THEN Goto(p, "x_count")
           ELSE Goto(p, "x_remove")
    /\ UNCHANGED <<catalogVars, storeVars, now, call>>

\* getAdminCount(): the last admin is not deleted.
UserDeleteCount(p) ==
    /\ pc[p] = "x_count"
    /\ IF getAdminCount <= 1 THEN Respond(p, 400, "Cannot delete the last admin", Null)
       ELSE Goto(p, "x_remove")
    /\ UNCHANGED <<catalogVars, storeVars, now, call>>

\* removeUser(targetUserId).
UserDeleteRemove(p) ==
    /\ pc[p] = "x_remove"
    /\ LET rm == DB_removeUser(users, call[p].id)
       IN  /\ users' = rm.rows
           /\ IF rm.threw THEN Respond(p, 500, "Failed to delete user", Null)
              ELSE Respond(p, 200, "", Null)
    /\ UNCHANGED <<packages, pkgSeq, tags, tagSeq, download_history, histSeq, foreign_keys,
                   storeVars, now, call>>

\* Promotions, demotions and deletions among the developers and the admin;
\* Developer2 is never an admin and is refused.
AdminRoleRequests ==
    { RequestOn(Admin, Developer1, [role |-> "admin"]),
      RequestOn(Admin, Developer1, [role |-> "developer"]),
      RequestOn(Developer1, Admin, [role |-> "user"]),
      RequestOn(Admin, Admin, [role |-> "user"]),
      RequestOn(Developer2, Admin, [role |-> "user"]) }

AdminDeleteRequests ==
    { [actor |-> Admin, id |-> Developer1],
      [actor |-> Developer1, id |-> Admin],
      [actor |-> Admin, id |-> Developer2],
      [actor |-> Developer2, id |-> Admin],
      [actor |-> 0, id |-> Admin] }

NextAdmin ==
    \/ \E p \in Procs : \E r \in AdminRoleRequests : Step(p, RoleStart(p, r))
    \/ \E p \in Procs : Step(p, RoleTarget(p))
    \/ \E p \in Procs : Step(p, RoleCount(p))
    \/ \E p \in Procs : Step(p, RoleUpdate(p))
    \/ \E p \in Procs : \E r \in AdminDeleteRequests : Step(p, UserDeleteStart(p, r))
    \/ \E p \in Procs : Step(p, UserDeleteTarget(p))
    \/ \E p \in Procs : Step(p, UserDeleteCount(p))
    \/ \E p \in Procs : Step(p, UserDeleteRemove(p))
    \/ \E p \in Procs : Step(p, Finish(p))

SpecAdmin == Init /\ [][NextAdmin]_vars

\* C39: no step of a role change or of a user deletion takes the users from
\* a state with an admin to a state with none.
C39_AnAdminRemains ==
    [][getAdminCount >= 1 => getAdminCount' >= 1]_vars


---------------------------------------------------------------------------
(* One window of checkRateLimit *)

\* The store holds an entry of key whose reset time has not passed at t.
InWindow(store, key, t) == key \in DOMAIN store /\ ~(t > store[key].resetTime)

\* C40: for the login limiter and every client IP, a call of checkRateLimit
\* is allowed exactly when the key has no entry, or its reset time has
\* passed, or the entry has counted fewer than the maximum; the count of the
\* entry is the number of calls allowed in its window; a denied call leaves
\* the entry as it was; the remaining it reports is the maximum minus the
\* count then stored, and is not negative; a call after the reset time
\* stores a new entry with count 1; an allowed call in the window adds 1 to
\* the count and keeps the reset time.
C40_WindowOfTheLimiter ==
    [][\A p \in Procs :
         LoginStarts(p) =>
           LET ip == call'[p].ip
               before == loginRateLimitStore
               after == loginRateLimitStore'
               rateLimit == checkRateLimit(before, ip, LOGIN_RATE_LIMIT_MAX,
                                           LOGIN_RATE_LIMIT_WINDOW, now)
               inWindow == InWindow(before, ip, now)
           IN  /\ after = rateLimit.store
               /\ \A other \in DOMAIN before \ {ip} :
                     other \in DOMAIN after /\ after[other] = before[other]
               /\ rateLimit.allowed <=>
                     (~inWindow \/ before[ip].count < LOGIN_RATE_LIMIT_MAX)
               /\ (pc'[p] = "done" /\ result'[p].status = 429) <=> ~rateLimit.allowed
               /\ ~rateLimit.allowed => after = before
               /\ rateLimit.remaining = LOGIN_RATE_LIMIT_MAX - after[ip].count
               /\ rateLimit.remaining >= 0
               /\ rateLimit.resetTime = after[ip].resetTime
               /\ ~inWindow =>
                     after[ip] = [count |-> 1, resetTime |-> now + LOGIN_RATE_LIMIT_WINDOW]
               /\ (inWindow /\ rateLimit.allowed) =>
                     after[ip] = [count |-> before[ip].count + 1,
                                  resetTime |-> before[ip].resetTime]
               /\ AdmittedIn(admitted', "login", ip,
                             after[ip].resetTime - LOGIN_RATE_LIMIT_WINDOW,
                             LOGIN_RATE_LIMIT_WINDOW + 1) = after[ip].count]_vars

\* An attempt was denied in the first window of its address, and the first
\* attempt after the reset time has started the second window.
C40_Witness ==
    \E p \in Procs :
      /\ pc[p] = "done" /\ call[p].op = "login" /\ result[p].status = 429
      /\ now > LOGIN_RATE_LIMIT_WINDOW
      /\ InWindow(loginRateLimitStore, call[p].ip, now)
      /\ loginRateLimitStore[call[p].ip] =
            [count |-> 1, resetTime |-> now + LOGIN_RATE_LIMIT_WINDOW]

====
